---------------------------- MODULE Spec2Model ----------------------------
(***************************************************************************)
(* A model of the BlackRoad Pi agent: the task executor                    *)
(* (pi_agent/executor.py), the connection manager (pi_agent/connection.py) *)
(* and the plan handler of the orchestrator (pi_agent/main.py).            *)
(*                                                                         *)
(* The program runs on one asyncio event loop, so a coroutine runs without *)
(* interruption between two suspension points (await).  Every action below *)
(* is the code between two suspension points of one coroutine.             *)
(***************************************************************************)
EXTENDS Integers, Sequences, FiniteSets

\* ------------------------------------------------------------------ bounds

\* Number of distinct task ids the environment uses.
NumTasks == 3

\* Largest value of config.executor.max_concurrent_tasks that is explored.
MaxConcurrent == 2

\* Largest number of envelopes queued or written on one connection by the
\* callers of send (the register envelopes come on top).
MaxEnvelopes == 2

\* Largest number of connections that are established.
MaxConnections == 2

\* Largest value the reconnect attempt counter takes.
MaxAttempts == 2

\* Largest number of task monitors alive at a time.
MaxMonitors == 1

\* Largest number of commands in a plan.
MaxPlanLen == 2

\* Number of distinct task ids that are scheduled.
NumSchedIds == 2

\* Number of callbacks registered with the scheduler.
NumCallbacks == 2

\* The clock of the scheduler runs from 0 to MaxTime.
MaxTime == 2

\* The repeat_interval of the recurring entries.
Period == 1

\* Largest number of calls of schedule, reschedule, cancel, start and stop.
MaxOps == 4

\* Largest number of entries in the heap of the scheduler.
MaxHeap == 3

\* The capacity claimed for the outbound queue (256 by default), scaled down.
QueueCapacity == 1

\* Largest number of handlers registered for one kind of envelope.
MaxHandlers == 2

\* Largest number of envelopes that are dispatched.
MaxDispatches == 2

\* Largest number of frames that wait in the socket to be read.
MaxInbox == 2

\* Largest number of exceptions that are logged.
MaxErrors == 2

\* ExecutorConfig.task_timeout (300 seconds by default), scaled down to the
\* ticks of the clock.
TaskTimeout == 2

TaskIds == 1..NumTasks

\* ---------------------------------------------------------------- executor

VARIABLES
    max_concurrent_tasks, \* ExecutorConfig.max_concurrent_tasks
    allowed_commands,     \* ExecutorConfig.allowed_commands
    results,              \* Executor._results: task id -> TaskResult (NoResult: no key)
    running_tasks,        \* keys of Executor._running_tasks, in the order of the dict
    semaphore,            \* value of Executor._semaphore (free permits)
    waiters,              \* coroutines waiting in Executor._semaphore, in FIFO order
    tasks,                \* the Task object each _run_task coroutine was given
    co,                   \* where the _run_task coroutine of each id stands
    child                 \* the child process of the latest run of each id

execVars == <<max_concurrent_tasks, allowed_commands, results, running_tasks, semaphore,
              waiters, tasks, co, child>>

VARIABLES
    reconnect_max_attempts, \* OperatorConfig.reconnect_max_attempts
    state,                  \* ConnectionManager._state
    conn_running,           \* ConnectionManager._running
    ws,                     \* ConnectionManager._ws and what its transport is like
    reconnect_attempts,     \* ConnectionManager._reconnect_attempts
    send_queue,             \* ConnectionManager._send_queue
    wire,                   \* the envelopes written to the transport of this connection
    sup,                    \* where the supervisor (_run, ConnectionManager._task) stands
    recv,                   \* where the receive loop of this connection stands
    send_loop,              \* where the send loop of this connection stands
    orphans,                \* send loops of earlier connections that still run
    stopping,               \* a call of stop() is waiting for ws.close()
    connections,            \* how many connections were established
    monitors,               \* _monitor_task coroutines that have not reported yet
    send_failed             \* a write to the transport of this connection has raised

connVars == <<reconnect_max_attempts, state, conn_running, ws, reconnect_attempts,
              send_queue, wire, sup, recv, send_loop, orphans, stopping,
              connections, monitors, send_failed>>

VARIABLES
    plan,      \* the commands of the execute_task that is being handled
    plan_idx,  \* the index (from 1) of the command the handler waits for
    plan_pc,   \* where PiAgent._handle_execute_task stands
    plan_log   \* the envelopes the handler has sent, in the order of the sends

planVars == <<plan, plan_idx, plan_pc, plan_log>>

VARIABLES
    received,  \* how many task envelopes were handled, by task id
    mon,       \* how many _monitor_task coroutines are polling, by task id
    reports    \* the statuses of the task_result envelopes sent, by task id

monVars == <<received, mon, reports>>

VARIABLES
    now,            \* time.time()
    sched_queue,    \* Scheduler._queue: how many heap entries of each (run_at, task_id)
    sched_tasks,    \* Scheduler._tasks: task id -> ScheduledTask (None: no key)
    sched_running,  \* Scheduler._running
    sched_pc,       \* where the loop task of the scheduler (Scheduler._task) stands
    proc_now,       \* the local now of _process_queue
    cur,            \* the local task of _process_queue: the entry that is firing
    cb,             \* the callback of the firing that was invoked last
    ops,            \* how many calls of the scheduler's methods were made
    waiting,        \* by id: the kind of the entry scheduled and not yet fired
    cancelled,      \* by id: cancel returned true and the id was not scheduled since
    expected,       \* by id: the run_at a reschedule set, until the next firing
    invoked         \* the id and number of the callback the last step invoked

schedVars == <<now, sched_queue, sched_tasks, sched_running, sched_pc, proc_now, cur,
               cb, ops, waiting, cancelled, expected, invoked>>

VARIABLES
    handlers,    \* ConnectionManager._handlers: kind -> list (empty: no key)
    registered,  \* the handlers passed to on(), by kind, in the order of the calls
    dispatches,  \* how many envelopes were dispatched
    calls        \* the kind of the envelope dispatched last and the handlers called

dispVars == <<handlers, registered, dispatches, calls>>

VARIABLES
    inbox,   \* the frames that arrived on the socket and were not read yet
    errors   \* the exceptions that were caught and logged, in the order of the logs

recvVars == <<inbox, errors>>

agentVars == <<monVars, schedVars, dispVars, recvVars>>

vars == <<execVars, connVars, planVars, agentVars>>

\* TaskStatus values.
PENDING == "pending"
RUNNING == "running"
COMPLETED == "completed"
FAILED == "failed"
CANCELLED == "cancelled"
TIMEOUT == "timeout"

TerminalStatuses == {COMPLETED, FAILED, CANCELLED, TIMEOUT}

\* Task kinds: "shell" stands for the handlers that spawn a child process
\* from their own payload (shell, script, python), "service" for the handler
\* that rewrites its payload to a shell command, "custom" for a handler that
\* spawns none (one given to register_handler, file_read, file_write),
\* "nokind" for a kind that has no handler.
TaskTypes == {"shell", "custom", "nokind"}

\* Executor._handlers
Handlers == {"shell", "service", "custom"}

\* Commands a shell task may carry, named by what the child process does.
\*   ""          no command
\*   "rm -rf /"  a command of the blocklist
\*   "true"      exits 0 and prints nothing
\*   "echo"      exits 0 and prints to stdout
\*   "warn"      exits 0 and prints to stdout and to stderr
\*   "false"     exits 1 and prints to stderr
Commands == {"", "rm -rf /", "true", "echo", "warn", "false"}

ExitCodeOf(cmd) == IF cmd = "false" THEN 1 ELSE 0

StdoutOf(cmd) == cmd \in {"echo", "warn"}

StderrOf(cmd) == cmd \in {"warn", "false"}

\* The letters, in both cases, position by position.
LowerLetters == "abcdefghijklmnopqrstuvwxyz"

UpperLetters == "ABCDEFGHIJKLMNOPQRSTUVWXYZ"

Digits == "0123456789"

\* The character of the text s at position i (from 1), as a text of length 1.
CharAt(s, i) == SubSeq(s, i, i)

\* sub in s
Contains(s, sub) ==
    \E i \in 1..(Len(s) - Len(sub) + 1) : SubSeq(s, i, i + Len(sub) - 1) = sub

\* str.lower() of one character: a capital letter becomes the small one,
\* every other character is kept.
LowerOfCapital ==
    [c \in {CharAt(UpperLetters, k) : k \in 1..Len(UpperLetters)} |->
        CharAt(LowerLetters, CHOOSE k \in 1..Len(UpperLetters) : CharAt(UpperLetters, k) = c)]

LowerChar(c) == IF c \in DOMAIN LowerOfCapital THEN LowerOfCapital[c] ELSE c

\* str.lower()
RECURSIVE Lower(_)
Lower(s) ==
    IF Len(s) = 0 THEN s
    ELSE LowerChar(CharAt(s, 1)) \o Lower(SubSeq(s, 2, Len(s)))

\* The characters shlex.quote leaves alone.
SafeChars == LowerLetters \o UpperLetters \o Digits \o "_@%+=:,./-"

\* s with every single quote replaced by '"'"'.
RECURSIVE EscapeQuotes(_)
EscapeQuotes(s) ==
    IF Len(s) = 0 THEN s
    ELSE (IF CharAt(s, 1) = "'" THEN "'\"'\"'" ELSE CharAt(s, 1))
             \o EscapeQuotes(SubSeq(s, 2, Len(s)))

SafeCharSet == {CharAt(SafeChars, k) : k \in 1..Len(SafeChars)}

\* shlex.quote: the empty text becomes '', a text of safe characters is
\* kept, any other text is put between single quotes.
Quote(s) ==
    IF Len(s) = 0 THEN "''"
    ELSE IF \A i \in 1..Len(s) : CharAt(s, i) \in SafeCharSet THEN s
    ELSE "'" \o EscapeQuotes(s) \o "'"

\* The actions _execute_service accepts.
ServiceActions == {"start", "stop", "restart", "status", "enable", "disable"}

\* The command _execute_service writes into the payload.
ServiceCommand(action, service) == "systemctl " \o action \o " " \o Quote(service)

\* ExecutorConfig.blocked_commands, the default.
BlockedCommands == <<"rm -rf /", "mkfs", "dd if=">>

\* A blocklist test that compares the command as it was written.
IsBlockedCommandAsWritten(command) ==
    \E k \in 1..Len(BlockedCommands) : Contains(command, BlockedCommands[k])

\* Executor._is_blocked_command: some entry of the blocklist, in small
\* letters, is part of the command in small letters.
IsBlockedCommand(command) ==
    \E k \in 1..Len(BlockedCommands) :
        Contains(Lower(command), Lower(BlockedCommands[k]))

\* A Task: its kind and, for a shell task, its command.
Tasks == [task_type : {"shell"}, command : Commands]
           \cup [task_type : TaskTypes \ {"shell"}, command : {""}]

NoTask == [task_type |-> "none", command |-> ""]

\* An Optional value: None, or Some(x).
None == {}

Some(x) == {x}

\* A TaskResult; stdout and stderr say whether the text is non-empty.
NewResult(st) == [status |-> st, exit_code |-> None, stdout |-> FALSE,
                  stderr |-> FALSE, error |-> None, started_at |-> None]

\* What stands in results for an id that has no result.
NoResult == NewResult("none")

Status(t) == results[t].status

GetResult(t) == results[t]

\* list(self._running_tasks.keys())
GetRunningTasks == running_tasks

\* The ids that are keys of _running_tasks.
InFlightIds == {running_tasks[i] : i \in 1..Len(running_tasks)}

\* The values of config.executor.allowed_commands that are explored: the
\* default, and a list with one entry.
AllowLists == {<<>>, <<"echo">>}

InitExec ==
    /\ max_concurrent_tasks \in 1..MaxConcurrent
    /\ allowed_commands \in AllowLists
    /\ results = [t \in TaskIds |-> NoResult]
    /\ running_tasks = <<>>
    /\ semaphore = max_concurrent_tasks
    /\ waiters = <<>>
    /\ tasks = [t \in TaskIds |-> NoTask]
    /\ co = [t \in TaskIds |-> "none"]
    /\ child = [t \in TaskIds |-> "none"]

Without(seq, t) == SelectSeq(seq, LAMBDA x : x # t)

\* A test that takes no id for in flight.
InFlightNever(t) == FALSE

\* task.task_id in self._running_tasks
InFlight(t) == t \in InFlightIds

\* Executor.submit: an id that is in flight is refused, otherwise a fresh
\* PENDING result replaces whatever result the id had and a _run_task
\* coroutine is created.
Submit(t, task) ==
    /\ IF InFlight(t)
       THEN UNCHANGED <<results, running_tasks, waiters, tasks, co, child>>
       ELSE /\ results' = [results EXCEPT ![t] = NewResult(PENDING)]
            /\ running_tasks' = Append(running_tasks, t)
            /\ tasks' = [tasks EXCEPT ![t] = task]
            /\ co' = [co EXCEPT ![t] = "waiting"]
            /\ waiters' = Append(waiters, t)
            /\ child' = [child EXCEPT ![t] = "none"]
    /\ UNCHANGED <<max_concurrent_tasks, allowed_commands, semaphore>>

\* A submission from outside the plan handler.
SubmitTask(t, task) == Submit(t, task) /\ UNCHANGED <<connVars, planVars, agentVars>>

\* A gate that hands out permits it does not have.
GateOpenUncounted(t) == waiters # <<>> /\ Head(waiters) = t

\* asyncio.Semaphore: a permit is free and the coroutine is the first waiter.
GateOpen(t) == semaphore > 0 /\ waiters # <<>> /\ Head(waiters) = t

\* _run_task up to its first suspension: the gate is passed and the status
\* becomes RUNNING; a kind without handler fails at once and returns from
\* inside the with block (the permit is given back, the in-flight entry is
\* not removed).
AcquireGate(t) ==
    /\ co[t] = "waiting"
    /\ GateOpen(t)
    /\ waiters' = Tail(waiters)
    /\ IF tasks[t].task_type \notin Handlers
       THEN /\ results' = [results EXCEPT ![t] =
                   [results[t] EXCEPT !.status = FAILED,
                                     !.started_at = Some(now),
                                     !.error = Some("Unknown task type")]]
            /\ co' = [co EXCEPT ![t] = "returned"]
            /\ tasks' = [tasks EXCEPT ![t] = NoTask]
            /\ UNCHANGED semaphore
       ELSE /\ results' = [results EXCEPT ![t] =
                   [results[t] EXCEPT !.status = RUNNING, !.started_at = Some(now)]]
            /\ co' = [co EXCEPT ![t] = "handler"]
            /\ semaphore' = semaphore - 1
            /\ UNCHANGED tasks
    /\ UNCHANGED <<max_concurrent_tasks, allowed_commands, running_tasks, child>>
    /\ UNCHANGED <<connVars, planVars, agentVars>>

\* An end of _run_task that keeps the permit of the gate.
FinishKeepsPermit(t, r) ==
    /\ results' = [results EXCEPT ![t] = r]
    /\ running_tasks' = Without(running_tasks, t)
    /\ semaphore' = semaphore
    /\ co' = [co EXCEPT ![t] = "returned"]
    /\ tasks' = [tasks EXCEPT ![t] = NoTask]

\* The end of _run_task after the handler: the finally clause drops the
\* in-flight entry, the result is stored and the with block gives the permit
\* back.  The coroutine and its Task object are gone.
Finish(t, r) ==
    /\ results' = [results EXCEPT ![t] = r]
    /\ running_tasks' = Without(running_tasks, t)
    /\ semaphore' = semaphore + 1
    /\ co' = [co EXCEPT ![t] = "returned"]
    /\ tasks' = [tasks EXCEPT ![t] = NoTask]

Failure(t, why) == [results[t] EXCEPT !.status = FAILED, !.error = Some(why)]

\* _execute_shell up to its first suspension, with the command it finds in
\* the payload: an empty or a blocked command is refused, otherwise the child
\* process is spawned (which may fail) and the handler waits for it.
ExecuteShell(t, command) ==
    IF command = ""
    THEN Finish(t, Failure(t, "No command provided")) /\ UNCHANGED child
    ELSE IF IsBlockedCommand(command)
    THEN Finish(t, Failure(t, "Command blocked by security policy"))
         /\ UNCHANGED child
    ELSE \/ /\ child' = [child EXCEPT ![t] = "running"]
            /\ co' = [co EXCEPT ![t] = "communicate"]
            /\ tasks' = [tasks EXCEPT ![t].command = command]
            /\ UNCHANGED <<results, running_tasks, semaphore>>
         \/ Finish(t, Failure(t, "exception")) /\ UNCHANGED child

\* _execute_service up to its first suspension: without a service name or
\* with an action it does not know the task fails, otherwise the command is
\* written into the payload and _execute_shell is called.
ExecuteService(t, service, action) ==
    IF service = ""
    THEN Finish(t, Failure(t, "No service name provided")) /\ UNCHANGED child
    ELSE IF action \notin ServiceActions
    THEN Finish(t, Failure(t, "Invalid action")) /\ UNCHANGED child
    ELSE ExecuteShell(t, ServiceCommand(action, service))

\* The handler up to its first suspension; the handlers other than shell
\* and service finish or raise.
HandlerStart(t) ==
    /\ co[t] = "handler"
    /\ LET task == tasks[t] IN
       IF task.task_type = "shell"
       THEN ExecuteShell(t, task.command)
       ELSE IF task.task_type = "service"
       THEN ExecuteService(t, task.service, task.action)
       ELSE /\ \/ Finish(t, [results[t] EXCEPT !.status = COMPLETED, !.exit_code = Some(0)])
               \/ Finish(t, Failure(t, "exception"))
            /\ UNCHANGED child
    /\ UNCHANGED <<max_concurrent_tasks, allowed_commands, waiters>>
    /\ UNCHANGED <<connVars, planVars, agentVars>>

\* The child process exits and proc.communicate() returns: the handler
\* records the exit code and the output, COMPLETED iff the code is 0.
ChildExit(t) ==
    /\ co[t] = "communicate"
    /\ child[t] = "running"
    /\ child' = [child EXCEPT ![t] = "none"]
    /\ LET cmd == tasks[t].command IN
       Finish(t, [results[t] EXCEPT
                    !.status = IF ExitCodeOf(cmd) = 0 THEN COMPLETED ELSE FAILED,
                    !.exit_code = Some(ExitCodeOf(cmd)),
                    !.stdout = StdoutOf(cmd),
                    !.stderr = StderrOf(cmd)])
    /\ UNCHANGED <<max_concurrent_tasks, allowed_commands, waiters>>
    /\ UNCHANGED <<connVars, planVars, agentVars>>

\* A task that takes the timeout it carries, whatever it is.
EffectiveTimeoutAsCarried(task) ==
    IF "timeout" \in DOMAIN task /\ task.timeout # None
    THEN CHOOSE n \in task.timeout : TRUE
    ELSE TaskTimeout

\* task.timeout or self.config.task_timeout: the timeout of the task unless
\* it is None or 0 (a task built without timeout has None).
EffectiveTimeout(task) ==
    IF "timeout" \in DOMAIN task /\ task.timeout \notin {None, Some(0)}
    THEN CHOOSE n \in task.timeout : TRUE
    ELSE TaskTimeout

\* result.started_at of the run of id t that has passed the gate.
StartedAt(t) == CHOOSE n \in results[t].started_at : TRUE

\* The handler of id t is inside wait_for.
InHandler(t) == co[t] \in {"handler", "communicate"}

\* asyncio.wait_for runs out: the handler coroutine is cancelled (nothing in
\* the handlers reacts to that: the child process is left alone) and
\* _run_task records TIMEOUT.
Timeout(t) ==
    /\ co[t] \in {"handler", "communicate"}
    /\ Finish(t, [results[t] EXCEPT !.status = TIMEOUT,
                                   !.error = Some("Task timed out")])
    /\ UNCHANGED <<max_concurrent_tasks, allowed_commands, waiters, child>>
    /\ UNCHANGED <<connVars, planVars, agentVars>>

\* The timer of wait_for, which was set when the handler was started, fires
\* at its time.
TimerFires(t) ==
    /\ InHandler(t)
    /\ now >= StartedAt(t) + EffectiveTimeout(tasks[t])
    /\ Timeout(t)

\* Executor.cancel: the asyncio task of an in-flight id is cancelled.  A
\* coroutine inside wait_for records CANCELLED and finishes; a coroutine that
\* has not passed the gate ends with CancelledError before any line of the
\* with block runs; a coroutine that has ended is not affected.
CancelTask(t) ==
    /\ IF t \notin InFlightIds
       THEN UNCHANGED <<results, running_tasks, semaphore, waiters, co, tasks>>
       ELSE IF co[t] \in {"handler", "communicate"}
       THEN Finish(t, [results[t] EXCEPT !.status = CANCELLED]) /\ UNCHANGED waiters
       ELSE IF co[t] = "waiting"
       THEN /\ co' = [co EXCEPT ![t] = "cancelled"]
            /\ waiters' = Without(waiters, t)
            /\ tasks' = [tasks EXCEPT ![t] = NoTask]
            /\ UNCHANGED <<results, running_tasks, semaphore>>
       ELSE UNCHANGED <<results, running_tasks, semaphore, waiters, co, tasks>>
    /\ UNCHANGED <<max_concurrent_tasks, allowed_commands, child>>

\* A call of Executor.cancel from outside the receive loop.
Cancel(t) == CancelTask(t) /\ UNCHANGED <<connVars, planVars, agentVars>>

\* -------------------------------------------------------------- connection



\* ConnectionState values.
DISCONNECTED == "disconnected"
CONNECTING == "connecting"
CONNECTED == "connected"
RECONNECTING == "reconnecting"

\* ws: self._ws is None, or it is a transport that is open, was closed with
\* a normal close code (1000, 1001), or was closed abnormally.
NoWs == "None"

ClosedWs == {"closed_ok", "closed_error"}

Envelope(type, payload) == [type |-> type, payload |-> payload]

Register == Envelope("register", [id |-> "agent"])

InitConn ==
    /\ reconnect_max_attempts \in {0, MaxAttempts}
    /\ state = DISCONNECTED
    /\ conn_running = FALSE
    /\ ws = NoWs
    /\ reconnect_attempts = 0
    /\ send_queue = <<>>
    /\ wire = <<>>
    /\ sup = "none"
    /\ recv = "none"
    /\ send_loop = "none"
    /\ orphans = 0
    /\ stopping = FALSE
    /\ connections = 0
    /\ monitors = 0
    /\ send_failed = FALSE

\* ConnectionManager.send: the envelope goes to the end of the queue.
Send(env) == send_queue' = Append(send_queue, env)

\* The callers of send have envelopes left in the budget of this connection.
MaySend == Len(send_queue) + Len(wire) < MaxEnvelopes

\* ConnectionManager.start
Start ==
    /\ ~conn_running
    /\ ~stopping
    /\ conn_running' = TRUE
    /\ sup' = "created"
    /\ UNCHANGED <<reconnect_max_attempts, send_failed, state, ws, reconnect_attempts, send_queue,
                   wire, recv, send_loop, orphans, stopping, connections, monitors>>
    /\ UNCHANGED <<execVars, planVars, agentVars>>

\* The head of the loop of _run: leave when _running is false, otherwise
\* enter _connect, which sets CONNECTING and waits for websockets.connect.
LoopHead ==
    IF conn_running
    THEN state' = CONNECTING /\ sup' = "connecting"
    ELSE sup' = "done" /\ UNCHANGED state

\* The first step of the supervisor task.
RunStart ==
    /\ sup = "created"
    /\ LoopHead
    /\ UNCHANGED <<reconnect_max_attempts, send_failed, conn_running, ws, reconnect_attempts,
                   send_queue, wire, recv, send_loop, orphans, stopping, connections,
                   monitors>>
    /\ UNCHANGED <<execVars, planVars, agentVars>>

\* The loop condition of _send_loop.
SendLoopGoesOn(running, socket) == running /\ socket # NoWs

\* websockets.connect succeeds: CONNECTED, the counter is reset, the register
\* envelope is queued and the two loops are started.
ConnectOk ==
    /\ sup = "connecting"
    /\ connections < MaxConnections
    /\ ws' = "open"
    /\ state' = CONNECTED
    /\ reconnect_attempts' = 0
    /\ Send(Register)
    /\ wire' = <<>>
    /\ send_failed' = FALSE
    /\ recv' = "reading"
    /\ send_loop' = IF SendLoopGoesOn(conn_running, "open") THEN "waiting" ELSE "done"
    /\ sup' = "gather"
    /\ connections' = connections + 1
    /\ inbox' = <<>>
    /\ UNCHANGED <<reconnect_max_attempts, conn_running, orphans, stopping, monitors>>
    /\ UNCHANGED <<execVars, planVars, monVars, schedVars, dispVars, errors>>

\* A _connect whose finally clause leaves the state as it is.
ConnectEndsKeepsState ==
    /\ ws' = NoWs
    /\ state' = state
    /\ sup' = "after_connect"

\* The finally clause of _connect, and the return to _run.
ConnectEnds ==
    /\ ws' = NoWs
    /\ state' = DISCONNECTED
    /\ sup' = "after_connect"

\* websockets.connect fails.
ConnectFail ==
    /\ sup = "connecting"
    /\ reconnect_attempts < MaxAttempts
    /\ ConnectEnds
    /\ UNCHANGED <<reconnect_max_attempts, send_failed, conn_running, reconnect_attempts, send_queue,
                   wire, recv, send_loop, orphans, stopping, connections, monitors>>
    /\ UNCHANGED <<execVars, planVars, agentVars>>

\* A reconnect cycle that is not counted.
AttemptNotCounted(n) == n

\* self._reconnect_attempts += 1
NextAttempt(n) == n + 1

\* _run after _connect: _handle_reconnect when _running, up to its sleep or
\* its return when the maximum of attempts is reached; then the loop head.
AfterConnect ==
    /\ sup = "after_connect"
    /\ IF conn_running
       THEN /\ state' = RECONNECTING
            /\ reconnect_attempts' = NextAttempt(reconnect_attempts)
            /\ IF reconnect_max_attempts > 0
                  /\ NextAttempt(reconnect_attempts) >= reconnect_max_attempts
               THEN conn_running' = FALSE /\ sup' = "done"
               ELSE sup' = "backoff" /\ UNCHANGED conn_running
       ELSE /\ sup' = "done"
            /\ UNCHANGED <<state, reconnect_attempts, conn_running>>
    /\ UNCHANGED <<reconnect_max_attempts, send_failed, ws, send_queue, wire, recv, send_loop,
                   orphans, stopping, connections, monitors>>
    /\ UNCHANGED <<execVars, planVars, agentVars>>

\* The sleep of _handle_reconnect ends.
BackoffDone ==
    /\ sup = "backoff"
    /\ LoopHead
    /\ UNCHANGED <<reconnect_max_attempts, send_failed, conn_running, ws, reconnect_attempts,
                   send_queue, wire, recv, send_loop, orphans, stopping, connections,
                   monitors>>
    /\ UNCHANGED <<execVars, planVars, agentVars>>

\* The operator or the network closes the transport.
TransportClose(how) ==
    /\ ws = "open"
    /\ ws' = how
    /\ UNCHANGED <<reconnect_max_attempts, send_failed, state, conn_running, reconnect_attempts,
                   send_queue, wire, sup, recv, send_loop, orphans, stopping,
                   connections, monitors>>
    /\ UNCHANGED <<execVars, planVars, agentVars>>

\* The receive loop finds the transport closed.  After a normal close the
\* iteration over the socket just ends and the loop returns; after an
\* abnormal one it raises ConnectionClosedError, which ends gather and
\* _connect at once and leaves the send loop running on its own.
RecvSeesClose ==
    /\ sup = "gather"
    /\ recv = "reading"
    /\ ws \in ClosedWs
    /\ IF ws = "closed_ok"
       THEN /\ recv' = "done"
            /\ UNCHANGED <<state, ws, sup, send_loop, orphans>>
       ELSE /\ ConnectEnds
            /\ recv' = "none"
            /\ send_loop' = "none"
            /\ orphans' = IF send_loop = "waiting" THEN orphans + 1 ELSE orphans
    /\ UNCHANGED <<reconnect_max_attempts, send_failed, conn_running, reconnect_attempts, send_queue,
                   wire, stopping, connections, monitors>>
    /\ UNCHANGED <<execVars, planVars, agentVars>>

\* Both loops have returned: gather returns and _connect ends.
GatherDone ==
    /\ sup = "gather"
    /\ recv = "done"
    /\ send_loop = "done"
    /\ ConnectEnds
    /\ recv' = "none"
    /\ send_loop' = "none"
    /\ UNCHANGED <<reconnect_max_attempts, send_failed, conn_running, reconnect_attempts, send_queue,
                   wire, orphans, stopping, connections, monitors>>
    /\ UNCHANGED <<execVars, planVars, agentVars>>

\* One round of _send_loop: an envelope is taken from the queue, or the wait
\* runs out after a second.  The envelope is written if self._ws is set; a
\* write to a closed transport raises, which is logged, and the envelope is
\* gone.  Then the loop condition is looked at again.
SendLoopRound ==
    /\ IF send_queue # <<>>
       THEN /\ send_queue' = Tail(send_queue)
            /\ wire' = IF ws = "open" THEN Append(wire, Head(send_queue)) ELSE wire
            /\ send_failed' = (send_failed \/ ws \in ClosedWs)
       ELSE UNCHANGED <<send_queue, wire, send_failed>>

\* A round of the send loop of this connection.
SendLoopStep ==
    /\ send_loop = "waiting"
    /\ SendLoopRound
    /\ send_loop' = IF SendLoopGoesOn(conn_running, ws) THEN "waiting" ELSE "done"
    /\ UNCHANGED <<reconnect_max_attempts, state, conn_running, ws, reconnect_attempts,
                   sup, recv, orphans, stopping, connections, monitors>>
    /\ UNCHANGED <<execVars, planVars, agentVars>>

\* A round of a send loop that an earlier connection left behind.
OrphanStep ==
    /\ orphans > 0
    /\ SendLoopRound
    /\ orphans' = IF SendLoopGoesOn(conn_running, ws) THEN orphans ELSE orphans - 1
    /\ UNCHANGED <<reconnect_max_attempts, state, conn_running, ws, reconnect_attempts,
                   sup, recv, send_loop, stopping, connections, monitors>>
    /\ UNCHANGED <<execVars, planVars, agentVars>>

\* The receive loop reads a frame and dispatches it: PiAgent._handle_ping
\* answers a ping with a pong, PiAgent._handle_task starts a monitor (the
\* task itself is left to the executor).
RecvFrame(type) ==
    /\ sup = "gather"
    /\ recv = "reading"
    /\ ws = "open"
    /\ IF type = "ping"
       THEN /\ MaySend
            /\ Send(Envelope("pong", [agent_id |-> "agent"]))
            /\ UNCHANGED monitors
       ELSE /\ monitors < MaxMonitors
            /\ monitors' = monitors + 1
            /\ UNCHANGED send_queue
    /\ UNCHANGED <<reconnect_max_attempts, send_failed, state, conn_running, ws, reconnect_attempts,
                   wire, sup, recv, send_loop, orphans, stopping, connections>>
    /\ UNCHANGED <<execVars, planVars, agentVars>>

\* PiAgent._monitor_task finds its task finished and sends the task_result.
MonitorReport ==
    /\ monitors > 0
    /\ MaySend
    /\ monitors' = monitors - 1
    /\ Send(Envelope("task_result", [status |-> COMPLETED]))
    /\ UNCHANGED <<reconnect_max_attempts, send_failed, state, conn_running, ws, reconnect_attempts,
                   wire, sup, recv, send_loop, orphans, stopping, connections>>
    /\ UNCHANGED <<execVars, planVars, agentVars>>

\* The current_task_id of a heartbeat: the first key of _running_tasks, or
\* None when there is none.
CurrentTaskId ==
    IF GetRunningTasks # <<>> THEN Some(GetRunningTasks[1]) ELSE None

\* PiAgent._heartbeat_loop: a heartbeat is sent when the state is CONNECTED.
Heartbeat ==
    /\ state = CONNECTED
    /\ MaySend
    /\ Send(Envelope("heartbeat", [agent_id |-> "agent", current_task_id |-> CurrentTaskId]))
    /\ UNCHANGED <<reconnect_max_attempts, send_failed, state, conn_running, ws, reconnect_attempts,
                   wire, sup, recv, send_loop, orphans, stopping, connections, monitors>>
    /\ UNCHANGED <<execVars, planVars, agentVars>>

\* A stop() that does not cancel the supervisor task.
StopEndsNoCancel ==
    /\ sup' = sup
    /\ ws' = NoWs
    /\ recv' = recv
    /\ send_loop' = send_loop
    /\ state' = DISCONNECTED
    /\ stopping' = FALSE

\* The end of stop(): the supervisor task is cancelled and awaited, then the
\* state is set.  A supervisor inside _connect runs its finally clause, and
\* gather cancels the two loops of the connection.
StopEnds ==
    /\ sup' = IF sup = "none" THEN "none" ELSE "done"
    /\ ws' = NoWs
    /\ recv' = "none"
    /\ send_loop' = "none"
    /\ state' = DISCONNECTED
    /\ stopping' = FALSE

\* ConnectionManager.stop up to its first suspension: _running is cleared; if
\* there is a socket it is closed, which stop() waits for.
StopBegin ==
    /\ ~stopping
    /\ sup # "after_connect"
    /\ conn_running' = FALSE
    /\ IF ws # NoWs
       THEN /\ ws' = IF ws = "open" THEN "closed_ok" ELSE ws
            /\ stopping' = TRUE
            /\ UNCHANGED <<state, sup, recv, send_loop>>
       ELSE StopEnds
    /\ UNCHANGED <<reconnect_max_attempts, send_failed, reconnect_attempts, send_queue, wire,
                   orphans, connections, monitors>>
    /\ UNCHANGED <<execVars, planVars, agentVars>>

\* ws.close() has returned: the rest of stop().
StopFinish ==
    /\ stopping
    /\ sup # "after_connect"
    /\ StopEnds
    /\ UNCHANGED <<reconnect_max_attempts, send_failed, conn_running, reconnect_attempts, send_queue,
                   wire, orphans, connections, monitors>>
    /\ UNCHANGED <<execVars, planVars, agentVars>>

\* -------------------------------------------------------------------- plan

\* The commands of a plan: every sequence of at most MaxPlanLen commands.
Plans == UNION {[1..n -> Commands] : n \in 0..MaxPlanLen}

\* The derived task of the command at index i (from 1; the program counts
\* from 0) stands for the id "<task_id>-cmd-<i - 1>".
DerivedId(i) == i

\* Ids of tasks that do not come from the plan.
OtherIds == TaskIds \ {DerivedId(i) : i \in 1..MaxPlanLen}

\* The first index from i on whose command has a non-empty run string, or
\* Len(cmds) + 1: the loop of the handler skips the empty ones.
RECURSIVE NextCommand(_, _)
NextCommand(cmds, i) ==
    IF i > Len(cmds) THEN i
    ELSE IF cmds[i] # "" THEN i
    ELSE NextCommand(cmds, i + 1)

\* A poll that takes a RUNNING task for a finished one.
IsFinishedEarly(r) == r.status \notin {"none", PENDING}

\* The test of the polling loop: there is a result and it is neither PENDING
\* nor RUNNING.
IsFinished(r) == r.status \notin {"none", PENDING, RUNNING}

\* A handler that never takes a command for failed.
CommandFailedNever(r) == FALSE

\* The test that stops the plan: result.exit_code != 0.
CommandFailed(r) == r.exit_code # Some(0)

\* result.exit_code or 0
ExitCodeOrZero(r) == IF r.exit_code = None THEN 0 ELSE CHOOSE c \in r.exit_code : TRUE

CommandResult(i, r) ==
    Envelope("command_result", [command_index |-> i - 1, exit_code |-> ExitCodeOrZero(r)])

TaskOutput(i, stream) ==
    Envelope("task_output", [command_index |-> i - 1, stream |-> stream])

TaskComplete(success, code) ==
    Envelope("task_complete", [success |-> success, exit_code |-> code])

\* The envelopes sent for the finished command at index i: the result, then
\* stdout if there is any, then stderr if there is any.
CommandEnvelopes(i, r) ==
    <<CommandResult(i, r)>>
        \o (IF r.stdout THEN <<TaskOutput(i, "stdout")>> ELSE <<>>)
        \o (IF r.stderr THEN <<TaskOutput(i, "stderr")>> ELSE <<>>)

\* The handler sends the envelopes envs.
PlanSends(envs) ==
    /\ send_queue' = send_queue \o envs
    /\ plan_log' = plan_log \o envs

\* The handler returns to the receive loop.
PlanReturns ==
    /\ plan_pc' = "done"
    /\ recv' = "reading"

\* The handler goes on with the commands from index i, having envs to send:
\* the next command that is not empty is submitted as a shell task and the
\* handler sleeps; when no command is left the plan is complete.
PlanGoesOn(cmds, i, envs) ==
    LET j == NextCommand(cmds, i) IN
    IF j > Len(cmds)
    THEN /\ PlanSends(envs \o <<TaskComplete(TRUE, Some(0))>>)
         /\ PlanReturns
         /\ UNCHANGED <<plan_idx, execVars>>
    ELSE /\ PlanSends(envs)
         /\ Submit(DerivedId(j), [task_type |-> "shell", command |-> cmds[j]])
         /\ plan_idx' = j
         /\ plan_pc' = "polling"
         /\ recv' = "handling"

\* The receive loop reads an execute_task frame and dispatches it to
\* PiAgent._handle_execute_task, which runs up to its first sleep.
RecvExecuteTask(cmds) ==
    /\ sup = "gather"
    /\ recv = "reading"
    /\ ws = "open"
    /\ plan_pc = "idle"
    /\ plan' = cmds
    /\ PlanGoesOn(cmds, 1, <<>>)
    /\ UNCHANGED <<reconnect_max_attempts, send_failed, state, conn_running, ws, reconnect_attempts,
                   wire, sup, send_loop, orphans, stopping, connections, monitors>>
    /\ UNCHANGED agentVars

\* The sleep of the polling loop ends.  If the derived task is finished its
\* envelopes are sent; a failed command ends the plan with task_complete,
\* otherwise the handler goes on with the next command.
PlanPoll ==
    /\ plan_pc = "polling"
    /\ LET r == GetResult(DerivedId(plan_idx)) IN
       IF ~IsFinished(r)
       THEN UNCHANGED <<execVars, send_queue, recv, plan_idx, plan_pc, plan_log>>
       ELSE IF CommandFailed(r)
       THEN /\ PlanSends(CommandEnvelopes(plan_idx, r)
                           \o <<TaskComplete(FALSE, r.exit_code)>>)
            /\ PlanReturns
            /\ UNCHANGED <<plan_idx, execVars>>
       ELSE PlanGoesOn(plan, plan_idx + 1, CommandEnvelopes(plan_idx, r))
    /\ UNCHANGED <<reconnect_max_attempts, send_failed, state, conn_running, ws, reconnect_attempts,
                   wire, sup, send_loop, orphans, stopping, connections, monitors,
                   plan>>
    /\ UNCHANGED agentVars

\* ---------------------------------------------------------------- monitors

InitMon ==
    /\ received = [t \in TaskIds |-> 0]
    /\ mon = [t \in TaskIds |-> 0]
    /\ reports = [t \in TaskIds |-> <<>>]

\* PiAgent._handle_task: the task of a task envelope is submitted and a
\* monitor is started for its id, whether or not the executor took the task.
HandleTask(t, task) ==
    /\ received[t] < MaxMonitors
    /\ Submit(t, task)
    /\ received' = [received EXCEPT ![t] = @ + 1]
    /\ mon' = [mon EXCEPT ![t] = @ + 1]
    /\ UNCHANGED <<reports, connVars, planVars, schedVars, dispVars, recvVars>>

\* PiAgent._handle_cancel: a cancel envelope is passed to Executor.cancel.
HandleCancel(t) == Cancel(t)

\* The sleep of a monitor of id t ends.  If the result is neither PENDING nor
\* RUNNING the monitor sends it as a task_result and ends; otherwise it
\* sleeps again.
MonitorPoll(t) ==
    /\ mon[t] > 0
    /\ IF IsFinished(GetResult(t))
       THEN /\ Send(Envelope("task_result", [task_id |-> t, status |-> Status(t)]))
            /\ reports' = [reports EXCEPT ![t] = Append(@, Status(t))]
            /\ mon' = [mon EXCEPT ![t] = @ - 1]
       ELSE UNCHANGED <<send_queue, reports, mon>>
    /\ UNCHANGED <<reconnect_max_attempts, send_failed, state, conn_running, ws, reconnect_attempts,
                   wire, sup, recv, send_loop, orphans, stopping, connections, monitors>>
    /\ UNCHANGED <<received, execVars, planVars, schedVars, dispVars, recvVars>>

\* --------------------------------------------------------------- scheduler

\* An entry of the log of caught exceptions: the function that logged it, and
\* the exception or the handler that raised it.
Logged(where, what) == [where |-> where, what |-> what]

SchedIds == 1..NumSchedIds

Times == 0..(MaxTime + Period)

\* The delays the callers of schedule and reschedule ask for.
Delays == 0..MaxTime

\* The repeat_interval of a ScheduledTask: 0 stands for None (like 0, it is
\* taken for "no repeat" by _process_queue).
Repeats == {0, Period}

\* A ScheduledTask, as far as the scheduler looks at it.
ScheduledTask(run_at, task_id, repeat_interval) ==
    [run_at |-> run_at, task_id |-> task_id, repeat_interval |-> repeat_interval]

\* What the heap orders and _process_queue compares: run_at and task_id.
HeapEntries == [run_at : Times, task_id : SchedIds]

HeapEntry(task) == [run_at |-> task.run_at, task_id |-> task.task_id]

RECURSIVE SumOver(_, _)
SumOver(q, S) ==
    IF S = {} THEN 0
    ELSE LET e == CHOOSE x \in S : TRUE IN q[e] + SumOver(q, S \ {e})

HeapSize(q) == SumOver(q, HeapEntries)

\* heappush
HeapPush(q, e) == [q EXCEPT ![e] = @ + 1]

\* The entries heappop may return: those with the least run_at.
HeapTop(q) ==
    {e \in HeapEntries : q[e] > 0 /\ \A f \in HeapEntries : q[f] > 0 => e.run_at <= f.run_at}

\* heappop of the entry e
HeapPop(q, e) == [q EXCEPT ![e] = @ - 1]

InMap(id) == sched_tasks[id] # None

\* self._tasks[id]
MapEntry(id) == CHOOSE task \in sched_tasks[id] : TRUE

KindOf(repeat_interval) == IF repeat_interval = 0 THEN "oneshot" ELSE "recurring"

InitSched ==
    /\ now = 0
    /\ sched_queue = [e \in HeapEntries |-> 0]
    /\ sched_tasks = [id \in SchedIds |-> None]
    /\ sched_running = FALSE
    /\ sched_pc = "none"
    /\ proc_now = 0
    /\ cur = None
    /\ cb = 0
    /\ ops = 0
    /\ waiting = [id \in SchedIds |-> "no"]
    /\ cancelled = [id \in SchedIds |-> FALSE]
    /\ expected = [id \in SchedIds |-> None]
    /\ invoked = None

\* The loop task is not in the middle of a stretch of code without await.
\* Other coroutines, and the clock, move only then.
Interruptible == sched_pc # "popping"

\* A call of a method of the scheduler by another coroutine, or by a callback.
Call ==
    /\ Interruptible
    /\ ops < MaxOps
    /\ ops' = ops + 1
    /\ invoked' = None

\* time.time() moves on.
Tick ==
    /\ Interruptible
    /\ now < MaxTime
    /\ now' = now + 1
    /\ invoked' = None
    /\ UNCHANGED <<sched_queue, sched_tasks, sched_running, sched_pc, proc_now, cur, cb,
                   ops, waiting, cancelled, expected>>
    /\ UNCHANGED <<execVars, connVars, planVars, monVars, dispVars, recvVars>>

\* Scheduler.schedule with an explicit task_id
Schedule(id, delay, repeat_interval) ==
    /\ Call
    /\ now + delay <= MaxTime
    /\ HeapSize(sched_queue) < MaxHeap
    /\ LET scheduled == ScheduledTask(now + delay, id, repeat_interval) IN
       /\ sched_queue' = HeapPush(sched_queue, HeapEntry(scheduled))
       /\ sched_tasks' = [sched_tasks EXCEPT ![id] = Some(scheduled)]
    /\ waiting' = [waiting EXCEPT ![id] = KindOf(repeat_interval)]
    /\ cancelled' = [cancelled EXCEPT ![id] = FALSE]
    /\ expected' = [expected EXCEPT ![id] = None]
    /\ UNCHANGED <<now, sched_running, sched_pc, proc_now, cur, cb>>
    /\ UNCHANGED <<execVars, connVars, planVars, monVars, dispVars, recvVars>>

\* Scheduler.cancel: true when the id is in the map.
SchedCancel(id) ==
    /\ Call
    /\ IF InMap(id)
       THEN /\ sched_tasks' = [sched_tasks EXCEPT ![id] = None]
            /\ waiting' = [waiting EXCEPT ![id] = "no"]
            /\ cancelled' = [cancelled EXCEPT ![id] = TRUE]
            /\ expected' = [expected EXCEPT ![id] = None]
       ELSE UNCHANGED <<sched_tasks, waiting, cancelled, expected>>
    /\ UNCHANGED <<now, sched_queue, sched_running, sched_pc, proc_now, cur, cb>>
    /\ UNCHANGED <<execVars, connVars, planVars, monVars, dispVars, recvVars>>

\* Scheduler.reschedule: true when the id is in the map.
Reschedule(id, delay) ==
    /\ Call
    /\ now + delay <= MaxTime
    /\ HeapSize(sched_queue) < MaxHeap
    /\ IF InMap(id)
       THEN LET new_task == ScheduledTask(now + delay, id, MapEntry(id).repeat_interval) IN
            /\ sched_tasks' = [sched_tasks EXCEPT ![id] = Some(new_task)]
            /\ sched_queue' = HeapPush(sched_queue, HeapEntry(new_task))
            /\ expected' = [expected EXCEPT ![id] = Some(new_task.run_at)]
       ELSE UNCHANGED <<sched_tasks, sched_queue, expected>>
    /\ UNCHANGED <<now, sched_running, sched_pc, proc_now, cur, cb, waiting, cancelled>>
    /\ UNCHANGED <<execVars, connVars, planVars, monVars, dispVars, recvVars>>

\* Scheduler.start: nothing when it runs already; otherwise the loop task is
\* created.
SchedStart ==
    /\ Call
    /\ IF sched_running
       THEN UNCHANGED <<sched_running, sched_pc>>
       ELSE sched_running' = TRUE /\ sched_pc' = "sleeping"
    /\ UNCHANGED <<now, sched_queue, sched_tasks, proc_now, cur, cb, waiting, cancelled,
                   expected>>
    /\ UNCHANGED <<execVars, connVars, planVars, monVars, dispVars, recvVars>>

\* Scheduler.stop: the loop task is cancelled where it waits, in its sleep or
\* in a callback, and _run leaves its loop.
SchedStop ==
    /\ Call
    /\ sched_running' = FALSE
    /\ sched_pc' = "none"
    /\ cur' = None
    /\ cb' = 0
    /\ UNCHANGED <<now, sched_queue, sched_tasks, proc_now, waiting, cancelled, expected>>
    /\ UNCHANGED <<execVars, connVars, planVars, monVars, dispVars, recvVars>>

\* The sleep of _run ends and _process_queue begins: it reads the clock once.
WakeUp ==
    /\ sched_pc = "sleeping"
    /\ sched_pc' = "popping"
    /\ proc_now' = now
    /\ invoked' = None
    /\ UNCHANGED <<now, sched_queue, sched_tasks, sched_running, cur, cb, ops, waiting,
                   cancelled, expected>>
    /\ UNCHANGED <<execVars, connVars, planVars, monVars, dispVars, recvVars>>

\* The callback number k is called with the entry task.
Invoke(task, k) ==
    /\ cb' = k
    /\ invoked' = Some([task_id |-> task.task_id, cb |-> k])

\* A filter that drops the entries of cancelled ids only.
IsStaleCancelledOnly(e) == ~InMap(e.task_id)

\* The popped heap entry e is no longer the entry of its id: the id is not in
\* the map (cancelled), or the map's entry has another run_at (rescheduled).
IsStale(e) == ~InMap(e.task_id) \/ MapEntry(e.task_id).run_at # e.run_at

\* One round of the loop of _process_queue.  The loop ends when the heap is
\* empty or its top is not due.  Otherwise the top is popped; a stale entry
\* is dropped, and for any other the map's entry is fired: the lock is
\* released and the first callback is called.
PopEntry ==
    /\ sched_pc = "popping"
    /\ IF HeapTop(sched_queue) = {} \/ \A e \in HeapTop(sched_queue) : e.run_at > proc_now
       THEN /\ sched_pc' = "sleeping"
            /\ invoked' = None
            /\ UNCHANGED <<sched_queue, cur, cb, waiting, expected>>
       ELSE \E e \in HeapTop(sched_queue) :
                /\ sched_queue' = HeapPop(sched_queue, e)
                /\ IF IsStale(e)
                   THEN /\ invoked' = None
                        /\ UNCHANGED <<sched_pc, cur, cb, waiting, expected>>
                   ELSE /\ cur' = Some(MapEntry(e.task_id))
                        /\ Invoke(MapEntry(e.task_id), 1)
                        /\ sched_pc' = "callback"
                        /\ waiting' = [waiting EXCEPT ![e.task_id] = "no"]
                        /\ expected' = [expected EXCEPT ![e.task_id] = None]
    /\ UNCHANGED <<now, sched_tasks, sched_running, proc_now, ops, cancelled>>

\* A round of the loop with callbacks that leave the rest of the agent alone.
Pop == PopEntry /\ UNCHANGED <<execVars, connVars, planVars, monVars, dispVars, recvVars>>

\* The end of a firing: a recurring entry whose id is still in the map is
\* replaced by a fresh entry at time.time() + repeat_interval, which is
\* pushed; the id of a one-shot entry is removed from the map.
Rearm(task) ==
    IF task.repeat_interval # 0
    THEN IF InMap(task.task_id)
         THEN LET new_task == ScheduledTask(now + task.repeat_interval, task.task_id,
                                            task.repeat_interval) IN
              /\ sched_tasks' = [sched_tasks EXCEPT ![task.task_id] = Some(new_task)]
              /\ sched_queue' = HeapPush(sched_queue, HeapEntry(new_task))
              /\ waiting' = [waiting EXCEPT ![task.task_id] = "recurring"]
         ELSE UNCHANGED <<sched_tasks, sched_queue, waiting>>
    ELSE /\ sched_tasks' = [sched_tasks EXCEPT ![task.task_id] = None]
         /\ UNCHANGED <<sched_queue, waiting>>

\* What follows a callback in the loop over the callbacks: the next callback
\* is called, or after the last one the firing ends and the loop of
\* _process_queue goes on.
AfterCallback ==
    LET task == CHOOSE x \in cur : TRUE IN
    IF cb < NumCallbacks
    THEN /\ Invoke(task, cb + 1)
         /\ UNCHANGED <<sched_queue, sched_tasks, sched_pc, cur, waiting>>
    ELSE /\ Rearm(task)
         /\ sched_pc' = "popping"
         /\ cur' = None
         /\ cb' = 0
         /\ invoked' = None

\* A callback returns.
CallbackReturns ==
    /\ sched_pc = "callback"
    /\ AfterCallback
    /\ UNCHANGED <<now, sched_running, proc_now, ops, cancelled, expected>>
    /\ UNCHANGED <<execVars, connVars, planVars, monVars, dispVars, recvVars>>

\* A loop over the callbacks that lets the exception of a callback pass.
CallbackCaughtNever(exc) == FALSE

\* The except clause around the call of a callback in _process_queue.
CallbackCaught(exc) == exc = "CallbackError"

\* A callback raises an exception.  It is caught and logged in the loop over
\* the callbacks, which goes on.  (An exception that left _process_queue
\* would be logged by _run, which sleeps and calls _process_queue again: the
\* firing would end there.)
CallbackRaises ==
    /\ sched_pc = "callback"
    /\ Len(errors) < MaxErrors
    /\ IF CallbackCaught("CallbackError")
       THEN /\ AfterCallback
            /\ errors' = Append(errors, Logged("_process_queue", "callback"))
       ELSE /\ sched_pc' = "sleeping"
            /\ cur' = None
            /\ cb' = 0
            /\ invoked' = None
            /\ errors' = Append(errors, Logged("_run", "callback"))
            /\ UNCHANGED <<sched_queue, sched_tasks, waiting>>
    /\ UNCHANGED <<now, sched_running, proc_now, ops, cancelled, expected>>
    /\ UNCHANGED <<execVars, connVars, planVars, monVars, dispVars, inbox>>

\* ---------------------------------------------------------------- dispatch

\* The kinds of envelope the operator sends, and the wildcard.
MsgKinds == {"task", "ping"}

Wildcard == "*"

HandlerNames == {"h1", "h2"}

InitDispatch ==
    /\ handlers = [k \in MsgKinds \cup {Wildcard} |-> <<>>]
    /\ registered = [k \in MsgKinds \cup {Wildcard} |-> <<>>]
    /\ dispatches = 0
    /\ calls = None

\* ConnectionManager.on
On(msg_type, handler) ==
    /\ Len(registered[msg_type]) < MaxHandlers
    /\ handlers' = [handlers EXCEPT ![msg_type] = Append(@, handler)]
    /\ registered' = [registered EXCEPT ![msg_type] = Append(@, handler)]
    /\ calls' = None
    /\ UNCHANGED dispatches
    /\ UNCHANGED <<execVars, connVars, planVars, monVars, schedVars, recvVars>>

\* list.extend(more)
Extended(list, more) == list \o more

\* ConnectionManager._dispatch for an envelope of kind msg_type.  The list
\* got from the dictionary is the registered list itself when the kind has a
\* key, and a new empty list otherwise; it is extended in place with the
\* wildcard handlers, and every handler of it is called.
Dispatch(msg_type) ==
    /\ dispatches < MaxDispatches
    /\ dispatches' = dispatches + 1
    /\ LET list == Extended(handlers[msg_type], handlers[Wildcard]) IN
       /\ handlers' = IF handlers[msg_type] # <<>>
                      THEN [handlers EXCEPT ![msg_type] = list]
                      ELSE handlers
       /\ calls' = Some([msg_type |-> msg_type, handlers |-> list])
    /\ UNCHANGED registered
    /\ UNCHANGED <<execVars, connVars, planVars, monVars, schedVars, recvVars>>

\* ----------------------------------------------------------------- receive

InitRecv ==
    /\ inbox = <<>>
    /\ errors = <<>>

\* AgentConfig.agent_id
AgentId == "agent"

\* The timestamps the operator puts into its envelopes.
Timestamps == 1..MaxTime

\* The text frames the operator sends, by what json.loads makes of them:
\* "garbage" is no JSON, "array" is JSON that is no object, "object" is a JSON
\* object, whose fields type, timestamp and payload.task_id may be missing
\* (None).  The kind "nokind" is one that nobody registers a handler for.
Frames ==
    [shape : {"garbage", "array"}, type : {None}, timestamp : {None}, task_id : {None}]
    \cup [shape : {"object"}, type : {None, Some("nokind"), Some("task")},
          timestamp : {None}, task_id : {None}]
    \cup [shape : {"object"}, type : {Some("ping")},
          timestamp : {None} \cup {Some(n) : n \in Timestamps}, task_id : {None}]

\* What Message.from_json raises for the frame: json.loads raises
\* JSONDecodeError for text that is no JSON, and parsed.get raises
\* AttributeError for a value that is no object.  None: nothing is raised.
ParseError(frame) ==
    IF frame.shape = "garbage" THEN Some("JSONDecodeError")
    ELSE IF frame.shape = "array" THEN Some("AttributeError")
    ELSE None

\* dict.get(key, default)
FieldOr(field, default) == IF field = None THEN default ELSE CHOOSE x \in field : TRUE

\* Message.from_json for a frame that is a JSON object: a missing type is
\* "unknown", a missing timestamp is time.time().
FromJson(frame) ==
    [msg_type |-> FieldOr(frame.type, "unknown"),
     timestamp |-> FieldOr(frame.timestamp, now),
     task_id |-> frame.task_id]

\* A receive loop that lets everything but JSONDecodeError pass.
RecvCatchesJsonOnly(exc) == exc = "JSONDecodeError"

\* The except clauses of the loop of _receive_loop: JSONDecodeError, and any
\* other Exception.
RecvCatches(exc) == exc = "JSONDecodeError" \/ exc \in {"AttributeError", "HandlerError"}

\* A dispatch that lets the exception of a handler pass.
HandlerCaughtNever(exc) == FALSE

\* The except clause around the call of a handler in _dispatch.
HandlerCaught(exc) == exc = "HandlerError"

\* A pong that carries the time of the agent.
PongLocalTime(msg) == Envelope("pong", [timestamp |-> now, agent_id |-> AgentId])

\* The envelope PiAgent._handle_ping sends for the ping msg.
Pong(msg) == Envelope("pong", [timestamp |-> msg.timestamp, agent_id |-> AgentId])

\* What PiAgent._setup_handlers registers for the kinds of MsgKinds.
HandlerFor(kind) ==
    IF kind = "ping" THEN <<"_handle_ping">>
    ELSE IF kind = "task" THEN <<"_handle_task">>
    ELSE <<>>

\* PiAgent._setup_handlers, on a connection manager as constructed.
SetupHandlers ==
    /\ \A k \in DOMAIN registered : registered[k] = <<>>
    /\ handlers' = [k \in DOMAIN handlers |-> HandlerFor(k)]
    /\ registered' = [k \in DOMAIN registered |-> HandlerFor(k)]
    /\ calls' = None
    /\ UNCHANGED dispatches
    /\ UNCHANGED <<execVars, connVars, planVars, monVars, schedVars, recvVars>>

\* self._handlers.get(kind, [])
HandlersFor(kind) == IF kind \in DOMAIN handlers THEN handlers[kind] ELSE <<>>

\* The place in list of the first handler that raises an exception the
\* dispatch does not catch, or Len(list) + 1.  The handlers of bad raise.
RECURSIVE FirstEscape(_, _, _)
FirstEscape(list, bad, i) ==
    IF i > Len(list) THEN i
    ELSE IF list[i] \in bad /\ ~HandlerCaught("HandlerError") THEN i
    ELSE FirstEscape(list, bad, i + 1)

Escapes(list, bad) == FirstEscape(list, bad, 1) <= Len(list)

\* The handlers of list that _dispatch calls: all of them, or those up to the
\* one whose exception ends the loop.
Called(list, bad) ==
    IF Escapes(list, bad) THEN SubSeq(list, 1, FirstEscape(list, bad, 1)) ELSE list

\* The log of _dispatch: one entry for each handler whose exception it caught.
RECURSIVE DispatchLog(_, _)
DispatchLog(called, bad) ==
    IF called = <<>> THEN <<>>
    ELSE (IF Head(called) \in bad /\ HandlerCaught("HandlerError")
          THEN <<Logged("_dispatch", Head(called))>> ELSE <<>>)
         \o DispatchLog(Tail(called), bad)

HowMany(list, x) == Len(SelectSeq(list, LAMBDA y : y = x))

\* The envelopes the called handlers send: _handle_ping sends a pong.
RECURSIVE Replies(_, _)
Replies(called, msg) ==
    IF called = <<>> THEN <<>>
    ELSE (IF Head(called) = "_handle_ping" THEN <<Pong(msg)>> ELSE <<>>)
         \o Replies(Tail(called), msg)

\* An exception leaves the receive loop: gather passes it on, _connect logs
\* it and its finally clause runs; the send loop is left running.
LoopRaises ==
    /\ ConnectEnds
    /\ recv' = "none"
    /\ send_loop' = "none"
    /\ orphans' = IF send_loop = "waiting" THEN orphans + 1 ELSE orphans

\* One round of the loop of _receive_loop for the frame: from_json, then
\* _dispatch, which calls the handlers of the kind and the wildcard handlers
\* (the handlers of bad raise an exception); what is raised on the way is
\* caught and logged, and the loop waits for the next frame.
Handle(frame, bad) ==
    /\ sup = "gather"
    /\ recv = "reading"
    /\ ws = "open"
    /\ LET exc == ParseError(frame)
           msg == FromJson(frame)
           list == Extended(HandlersFor(msg.msg_type), handlers[Wildcard])
           called == IF exc = None THEN Called(list, bad) ELSE <<>>
           raised == IF exc # None THEN exc
                     ELSE IF Escapes(list, bad) THEN Some("HandlerError")
                     ELSE None
           caught == \A e \in raised : RecvCatches(e)
           log == DispatchLog(called, bad)
                     \o (IF raised # None /\ caught
                         THEN <<Logged("_receive_loop", CHOOSE e \in raised : TRUE)>>
                         ELSE <<>>)
       IN
       /\ Len(errors) + Len(log) <= MaxErrors
       /\ errors' = errors \o log
       /\ IF exc = None
          THEN /\ dispatches < MaxDispatches
               /\ dispatches' = dispatches + 1
               /\ handlers' = IF HandlersFor(msg.msg_type) # <<>>
                              THEN [handlers EXCEPT ![msg.msg_type] = list]
                              ELSE handlers
               /\ calls' = Some([msg_type |-> msg.msg_type, handlers |-> called])
               /\ Replies(called, msg) # <<>> => MaySend
               /\ send_queue' = send_queue \o Replies(called, msg)
               /\ monitors + HowMany(called, "_handle_task") <= MaxMonitors
               /\ monitors' = monitors + HowMany(called, "_handle_task")
          ELSE /\ calls' = None
               /\ UNCHANGED <<dispatches, handlers, send_queue, monitors>>
       /\ IF caught
          THEN UNCHANGED <<state, ws, sup, recv, send_loop, orphans>>
          ELSE LoopRaises
    /\ UNCHANGED <<reconnect_max_attempts, send_failed, conn_running, reconnect_attempts,
                   wire, stopping, connections>>
    /\ UNCHANGED registered
    /\ UNCHANGED <<execVars, planVars, monVars, schedVars>>

\* A frame of a kind that nobody registers a handler for.
NoKindFrame ==
    [shape |-> "object", type |-> Some("nokind"), timestamp |-> None, task_id |-> None]

\* The operator sends a frame and the receive loop reads it at once.
Receive(frame, bad) == Handle(frame, bad) /\ UNCHANGED inbox

\* The frames that reach the agent while it executes a plan: a ping, and a
\* cancel for the derived task of each command.
PlanFrames ==
    {[shape |-> "object", type |-> Some("ping"), timestamp |-> Some(1), task_id |-> None]}
    \cup {[shape |-> "object", type |-> Some("cancel"), timestamp |-> None,
           task_id |-> Some(DerivedId(i))] : i \in 1..MaxPlanLen}

\* The pongs that were sent on this connection, queued or written.
PongsSent == Len(SelectSeq(send_queue \o wire, LAMBDA env : env.type = "pong"))

\* The operator sends a frame: it waits in the socket until the receive loop
\* comes to read it.
Arrive(frame) ==
    /\ sup = "gather"
    /\ ws = "open"
    /\ Len(inbox) + PongsSent < MaxInbox
    /\ inbox' = Append(inbox, frame)
    /\ UNCHANGED <<execVars, connVars, planVars, monVars, schedVars, dispVars, errors>>

\* One round of the loop of _receive_loop for the frame that waits first,
\* with the handlers of PiAgent._setup_handlers: _handle_ping sends the pong,
\* _handle_cancel passes the task id to Executor.cancel.  Both return
\* without waiting and the loop is back at its read.
ReadFrame ==
    /\ sup = "gather"
    /\ recv = "reading"
    /\ ws = "open"
    /\ inbox # <<>>
    /\ inbox' = Tail(inbox)
    /\ LET msg == FromJson(Head(inbox)) IN
       IF msg.msg_type = "ping"
       THEN Send(Pong(msg)) /\ UNCHANGED execVars
       ELSE IF msg.msg_type = "cancel" /\ msg.task_id # None
       THEN CancelTask(CHOOSE t \in msg.task_id : TRUE) /\ UNCHANGED send_queue
       ELSE UNCHANGED <<execVars, send_queue>>
    /\ UNCHANGED <<reconnect_max_attempts, state, conn_running, ws, reconnect_attempts,
                   wire, sup, recv, send_loop, orphans, stopping, connections, monitors,
                   send_failed>>
    /\ UNCHANGED <<planVars, monVars, schedVars, dispVars, errors>>

\* ------------------------------------------------------------ specifications

InitPlan ==
    /\ plan = <<>>
    /\ plan_idx = 0
    /\ plan_pc = "idle"
    /\ plan_log = <<>>

Init ==
    InitExec /\ InitConn /\ InitPlan /\ InitMon /\ InitSched /\ InitDispatch /\ InitRecv

\* The tasks submitted to the executor on its own.
ExecTasks == {[task_type |-> "shell", command |-> "true"],
              [task_type |-> "shell", command |-> "false"],
              [task_type |-> "shell", command |-> "rm -rf /"],
              [task_type |-> "custom", command |-> ""],
              [task_type |-> "nokind", command |-> ""]}

\* The executor alone.
NextExec ==
    \/ \E t \in TaskIds, task \in ExecTasks : SubmitTask(t, task)
    \/ \E t \in TaskIds : AcquireGate(t)
    \/ \E t \in TaskIds : HandlerStart(t)
    \/ \E t \in TaskIds : ChildExit(t)
    \/ \E t \in TaskIds : Timeout(t)
    \/ \E t \in TaskIds : Cancel(t)

\* The executor is explored with the connection manager as constructed from
\* the default configuration, and the other way round.
InitExecOnly == Init /\ reconnect_max_attempts = 0 /\ allowed_commands = <<>>

InitConnOnly == Init /\ max_concurrent_tasks = 1 /\ allowed_commands = <<>>

SpecExec == InitExecOnly /\ [][NextExec]_vars

\* The connection manager alone.
NextConn ==
    \/ Start
    \/ RunStart
    \/ ConnectOk
    \/ ConnectFail
    \/ AfterConnect
    \/ BackoffDone
    \/ \E how \in ClosedWs : TransportClose(how)
    \/ RecvSeesClose
    \/ GatherDone
    \/ SendLoopStep
    \/ OrphanStep
    \/ \E type \in {"ping", "task"} : RecvFrame(type)
    \/ MonitorReport
    \/ Heartbeat
    \/ StopBegin
    \/ StopFinish

SpecConn == InitConnOnly /\ [][NextConn]_vars

\* The event loop runs every coroutine that can run: the supervisor and the
\* loops take their next step, a connection attempt ends, a sleep ends.
FairConn ==
    /\ WF_vars(RunStart)
    /\ WF_vars(ConnectOk \/ ConnectFail)
    /\ WF_vars(AfterConnect)
    /\ WF_vars(BackoffDone)
    /\ WF_vars(RecvSeesClose)
    /\ WF_vars(GatherDone)
    /\ WF_vars(SendLoopStep)
    /\ WF_vars(OrphanStep)
    /\ WF_vars(StopFinish)

FairSpecConn == SpecConn /\ FairConn

\* The task that competes with the plan for the gate.
OtherTasks == {[task_type |-> "shell", command |-> "true"]}

\* One execute_task on the first connection, with the executor.  The send
\* loop is left out, so that send_queue keeps every envelope that was sent.
\* No cancel envelope reaches a derived task: the receive loop does not read
\* while the handler runs.
NextPlan ==
    \/ Start
    \/ RunStart
    \/ ConnectOk
    \/ \E cmds \in Plans : RecvExecuteTask(cmds)
    \/ PlanPoll
    \/ \E t \in OtherIds, task \in OtherTasks : SubmitTask(t, task)
    \/ \E t \in TaskIds : AcquireGate(t)
    \/ \E t \in TaskIds : HandlerStart(t)
    \/ \E t \in TaskIds : ChildExit(t)
    \/ \E t \in TaskIds : Timeout(t)
    \/ \E t \in OtherIds : Cancel(t)

SpecPlan == InitExecOnly /\ [][NextPlan]_vars

\* The task and cancel envelopes of the operator, with the executor and the
\* monitors.
NextTask ==
    \/ \E t \in TaskIds, task \in ExecTasks : HandleTask(t, task)
    \/ \E t \in TaskIds : HandleCancel(t)
    \/ \E t \in TaskIds : MonitorPoll(t)
    \/ \E t \in TaskIds : AcquireGate(t)
    \/ \E t \in TaskIds : HandlerStart(t)
    \/ \E t \in TaskIds : ChildExit(t)
    \/ \E t \in TaskIds : Timeout(t)

SpecTask == InitExecOnly /\ [][NextTask]_vars

\* The event loop runs every coroutine that can run, and the timer of
\* wait_for fires if the handler has not finished before.
FairExec ==
    \A t \in TaskIds :
        /\ WF_vars(AcquireGate(t))
        /\ WF_vars(HandlerStart(t))
        /\ WF_vars(ChildExit(t) \/ Timeout(t))

FairSpecExec == SpecExec /\ FairExec

\* The event loop runs every coroutine that can run: the monitors as well as
\* the coroutines of the executor.
FairTask == FairExec /\ \A t \in TaskIds : WF_vars(MonitorPoll(t))

FairSpecTask == SpecTask /\ FairTask

\* The scheduler alone, with callers of its methods and callbacks that may
\* wait.
NextSched ==
    \/ Tick
    \/ \E id \in SchedIds, delay \in Delays, repeat_interval \in Repeats :
           Schedule(id, delay, repeat_interval)
    \/ \E id \in SchedIds : SchedCancel(id)
    \/ \E id \in SchedIds, delay \in Delays : Reschedule(id, delay)
    \/ SchedStart
    \/ SchedStop
    \/ WakeUp
    \/ Pop
    \/ CallbackReturns

InitSchedOnly ==
    Init /\ max_concurrent_tasks = 1 /\ reconnect_max_attempts = 0 /\ allowed_commands = <<>>

SpecSched == InitSchedOnly /\ [][NextSched]_vars

\* Time goes on (however often the loop task runs), the sleep of the loop
\* ends, the loop task runs when it can and every callback returns.
FairSched ==
    /\ SF_vars(Tick)
    /\ WF_vars(WakeUp)
    /\ WF_vars(Pop)
    /\ WF_vars(CallbackReturns)

FairSpecSched == SpecSched /\ FairSched

\* The registration of handlers and the dispatch of received envelopes.
NextDispatch ==
    \/ \E msg_type \in MsgKinds \cup {Wildcard}, handler \in HandlerNames :
           On(msg_type, handler)
    \/ \E msg_type \in MsgKinds : Dispatch(msg_type)

SpecDispatch == InitSchedOnly /\ [][NextDispatch]_vars

\* The receive loop of one connection, with the handlers of the agent and
\* handlers registered on top of them, which may raise.
NextRecv ==
    \/ Start
    \/ RunStart
    \/ ConnectOk
    \/ SetupHandlers
    \/ \E msg_type \in {"ping", Wildcard}, handler \in HandlerNames : On(msg_type, handler)
    \/ \E frame \in Frames, bad \in SUBSET HandlerNames : Receive(frame, bad)

SpecRecv == InitSchedOnly /\ [][NextRecv]_vars

\* The handlers and callbacks that raise: frames of a kind that only the
\* wildcard handlers take, and the firings of one scheduled id.
NextIsolation ==
    \/ Start
    \/ RunStart
    \/ ConnectOk
    \/ \E handler \in HandlerNames : On(Wildcard, handler)
    \/ \E bad \in SUBSET HandlerNames :
           Receive(NoKindFrame, bad)
    \/ \E repeat_interval \in Repeats : Schedule(1, 0, repeat_interval)
    \/ SchedStart
    \/ WakeUp
    \/ Pop
    \/ CallbackReturns
    \/ CallbackRaises

SpecIsolation == InitSchedOnly /\ [][NextIsolation]_vars

\* The connection manager and the scheduler with their start and stop: the
\* supervisor with its loops on connections that open, fail and close, and
\* the firings of one scheduled id.
NextStop ==
    \/ Start
    \/ RunStart
    \/ ConnectOk
    \/ ConnectFail
    \/ AfterConnect
    \/ BackoffDone
    \/ \E how \in ClosedWs : TransportClose(how)
    \/ RecvSeesClose
    \/ GatherDone
    \/ SendLoopStep
    \/ OrphanStep
    \/ StopBegin
    \/ StopFinish
    \/ \E repeat_interval \in Repeats : Schedule(1, 0, repeat_interval)
    \/ SchedStart
    \/ SchedStop
    \/ WakeUp
    \/ Pop
    \/ CallbackReturns

SpecStop == InitSchedOnly /\ [][NextStop]_vars

\* Shell and service tasks with commands that hold an entry of the blocklist
\* as it is written, in other letter cases, inside a longer command and
\* behind the rewriting of a service task, and with commands that hold none.
PolicyTasks ==
    {[task_type |-> "shell", command |-> c] :
         c \in {"", "true", "RM -RF /", "sudo Mkfs.ext4 /dev/sda1", "rm -rf ./tmp"}}
    \cup {[task_type |-> "service", command |-> "", service |-> sv, action |-> a] :
             sv \in {"", "ssh", "MkFs", "dd if='x'"}, a \in {"restart", "reload"}}

\* Plans whose commands hold an entry of the blocklist in capital letters.
PolicyPlans == {<<"echo", "DD IF=/dev/zero of=/dev/sda">>, <<"Rm -Rf /", "true">>}

\* The executor with tasks that the blocklist is about: the tasks of one
\* plan, and shell and service tasks submitted under another id.
NextPolicy ==
    \/ Start
    \/ RunStart
    \/ ConnectOk
    \/ \E cmds \in PolicyPlans : RecvExecuteTask(cmds)
    \/ PlanPoll
    \/ \E t \in OtherIds, task \in PolicyTasks : SubmitTask(t, task)
    \/ \E t \in TaskIds : AcquireGate(t)
    \/ \E t \in TaskIds : HandlerStart(t)
    \/ \E t \in TaskIds : ChildExit(t)
    \/ \E t \in TaskIds : Timeout(t)
    \/ \E t \in OtherIds : Cancel(t)

SpecPolicy == InitExecOnly /\ [][NextPolicy]_vars

\* The plans of the execute_task whose connection is closed: one command
\* that prints to both streams, and two commands.
AbortPlans == {<<"warn">>, <<"echo", "true">>}

\* An execute_task that is read on the first connection.
FirstPlan(cmds) == connections = 1 /\ RecvExecuteTask(cmds)

\* One execute_task on the first connection, which the operator or the
\* network may close at any time, with the executor, the two loops and the
\* reconnect cycle of the supervisor.
NextAbort ==
    \/ Start
    \/ RunStart
    \/ ConnectOk
    \/ AfterConnect
    \/ BackoffDone
    \/ \E how \in ClosedWs : TransportClose(how)
    \/ RecvSeesClose
    \/ SendLoopStep
    \/ OrphanStep
    \/ \E cmds \in AbortPlans : FirstPlan(cmds)
    \/ PlanPoll
    \/ \E t \in TaskIds : AcquireGate(t)
    \/ \E t \in TaskIds : HandlerStart(t)
    \/ \E t \in TaskIds : ChildExit(t)

SpecAbort == InitExecOnly /\ [][NextAbort]_vars

\* The tasks that are in flight when a heartbeat is sent: one that runs a
\* child process, and one of a kind without handler.
BeatTasks == {[task_type |-> "shell", command |-> "true"],
              [task_type |-> "nokind", command |-> ""]}

\* The heartbeats of an agent whose executor has tasks in flight, on a
\* connection that may close.
NextHeartbeat ==
    \/ Start
    \/ RunStart
    \/ ConnectOk
    \/ SendLoopStep
    \/ TransportClose("closed_error")
    \/ RecvSeesClose
    \/ AfterConnect
    \/ Heartbeat
    \/ \E t \in TaskIds, task \in BeatTasks : SubmitTask(t, task)
    \/ \E t \in TaskIds : AcquireGate(t)
    \/ \E t \in TaskIds : HandlerStart(t)
    \/ \E t \in TaskIds : ChildExit(t)

SpecHeartbeat == InitSchedOnly /\ [][NextHeartbeat]_vars

\* Shell tasks with and without a timeout of their own.
TimedTasks ==
    {[task_type |-> "shell", command |-> "true", timeout |-> tmo] :
         tmo \in {None, Some(0), Some(1)}}

\* A second goes by.  The timers fire at their time: the clock does not go
\* past the time of a timer that is set.
TimePasses ==
    /\ \A t \in TaskIds :
           InHandler(t) => now < StartedAt(t) + EffectiveTimeout(tasks[t])
    /\ Tick

\* The executor with a clock: the children exit at any time, the timers of
\* wait_for fire at their time.
NextTimeout ==
    \/ \E t \in TaskIds, task \in TimedTasks : SubmitTask(t, task)
    \/ \E t \in TaskIds : AcquireGate(t)
    \/ \E t \in TaskIds : HandlerStart(t)
    \/ \E t \in TaskIds : ChildExit(t)
    \/ \E t \in TaskIds : TimerFires(t)
    \/ TimePasses

SpecTimeout == InitExecOnly /\ [][NextTimeout]_vars

\* An execute_task that is read when no frame waits before it.
NextPlanFrame(cmds) == inbox = <<>> /\ RecvExecuteTask(cmds)

\* One execute_task with the executor, and the pings and cancels the operator
\* sends before, while and after the plan is executed.
NextBusy ==
    \/ Start
    \/ RunStart
    \/ ConnectOk
    \/ \E cmds \in AbortPlans : NextPlanFrame(cmds)
    \/ PlanPoll
    \/ \E frame \in PlanFrames : Arrive(frame)
    \/ ReadFrame
    \/ SendLoopStep
    \/ \E t \in TaskIds : AcquireGate(t)
    \/ \E t \in TaskIds : HandlerStart(t)
    \/ \E t \in TaskIds : ChildExit(t)

SpecBusy == InitExecOnly /\ [][NextBusy]_vars

\* ------------------------------------------------------------------ claims

NumRunning == Cardinality({t \in TaskIds : Status(t) = RUNNING})

\* C1: in every reachable state the number of tasks whose result status is
\* RUNNING is at most max_concurrent_tasks.
C1_RunningWithinLimit == NumRunning <= max_concurrent_tasks

\* C1 witness: max_concurrent_tasks = 1 and three submissions are in flight,
\* one of them RUNNING and two waiting at the gate.
C1_ThreeSubmissionsOneRuns ==
    /\ max_concurrent_tasks = 1
    /\ NumRunning = 1
    /\ Cardinality({t \in TaskIds : Status(t) = PENDING /\ co[t] = "waiting"}) = 2

\* C2 (as claimed): every task accepted by submit eventually has a terminal
\* status, under fair scheduling and any interleaving of submits and cancels.
C2_EventuallyTerminal ==
    \A t \in TaskIds : (Status(t) = PENDING) ~> (Status(t) \in TerminalStatuses)

PermitsHeld == Cardinality({t \in TaskIds : co[t] \in {"handler", "communicate"}})

\* C6 (as claimed): a task cancelled while PENDING has status CANCELLED, is no
\* longer in the in-flight set and holds no permit of the gate.
C6_CancelPendingMarksCancelled ==
    \A t \in TaskIds :
        co[t] = "cancelled" =>
            /\ Status(t) = CANCELLED
            /\ t \notin InFlightIds
            /\ semaphore + PermitsHeld = max_concurrent_tasks

\* C7 (as claimed): no task is TIMEOUT or CANCELLED while the child process
\* of that run is still running.
C7_AbortedChildKilled ==
    \A t \in TaskIds :
        Status(t) \in {TIMEOUT, CANCELLED} => child[t] # "running"

\* The moves of a status the claim allows.  _run_task sets RUNNING and then
\* FAILED without suspending when the kind has no handler, which is the two
\* moves PENDING -> RUNNING -> FAILED in one step.
StatusMove(a, b) ==
    \/ a = b
    \/ a = "none" /\ b = PENDING
    \/ a = PENDING /\ b \in {RUNNING, CANCELLED}
    \/ a = RUNNING /\ b \in TerminalStatuses
    \/ a = PENDING /\ b = FAILED

\* C8 (as claimed): the status of a task id only moves PENDING -> RUNNING,
\* RUNNING -> terminal, PENDING -> CANCELLED, and a terminal status never
\* changes again, whatever is submitted or cancelled later.
C8_StatusOnlyMovesForward ==
    [][\A t \in TaskIds : StatusMove(results[t].status, results'[t].status)]_vars

\* C3 (as claimed): the first envelope written on every connection is the
\* register envelope, whatever the queue held when the connection was made.
C3_RegisterFirstOnWire == wire # <<>> => Head(wire).type = "register"

ClosedWhileConnected == state = CONNECTED /\ ws \in ClosedWs /\ conn_running

\* C4 (as claimed): when the transport closes while the manager is CONNECTED
\* and stop is not called, the state becomes DISCONNECTED and the supervisor
\* goes on to RECONNECTING and to CONNECTING (unless the maximum of attempts
\* stops it), for a normal close as for an abnormal one.
C4_CloseLeadsToReconnect ==
    /\ ClosedWhileConnected ~> (state = DISCONNECTED \/ ~conn_running)
    /\ ClosedWhileConnected ~> (state = RECONNECTING \/ ~conn_running)
    /\ ClosedWhileConnected ~> (state = CONNECTING \/ ~conn_running)

\* The changes of state the claim lists.
StateMoves == {<<DISCONNECTED, CONNECTING>>, <<CONNECTING, CONNECTED>>,
               <<CONNECTING, DISCONNECTED>>, <<CONNECTED, DISCONNECTED>>,
               <<DISCONNECTED, RECONNECTING>>, <<RECONNECTING, CONNECTING>>}

\* C5: every change of state is one of the listed moves or a move to
\* DISCONNECTED made by stop().
C5_StateMoves ==
    [][state' # state =>
          \/ <<state, state'>> \in StateMoves
          \/ state' = DISCONNECTED /\ (StopBegin \/ StopFinish)]_vars

\* C5 witness: the cycle CONNECTED, DISCONNECTED, RECONNECTING, CONNECTING has
\* been gone through after a connection.
C5_ReconnectingAfterConnection ==
    state = CONNECTING /\ connections > 0 /\ reconnect_attempts > 0

\* ---------------------------------------------------- claims about the plan

PerCommand(env) == env.type \in {"command_result", "task_output"}

\* The index in plan of the command a per-command envelope is about.
IndexOf(env) == env.payload.command_index + 1

\* The place of an envelope in the order of the plan: by command, and for one
\* command the result, stdout, stderr; task_complete after all of them.
Rank(env) ==
    IF env.type = "command_result" THEN 3 * IndexOf(env)
    ELSE IF env.type = "task_output"
    THEN 3 * IndexOf(env) + (IF env.payload.stream = "stdout" THEN 1 ELSE 2)
    ELSE 3 * (Len(plan) + 1)

Sent(type, i) ==
    \E a \in 1..Len(plan_log) : plan_log[a].type = type /\ IndexOf(plan_log[a]) = i

SentOutput(i, stream) ==
    \E a \in 1..Len(plan_log) :
        /\ plan_log[a].type = "task_output"
        /\ IndexOf(plan_log[a]) = i
        /\ plan_log[a].payload.stream = stream

\* Every envelope of the finished command at index i has been sent.
AllSent(i) ==
    /\ Sent("command_result", i)
    /\ GetResult(DerivedId(i)).stdout => SentOutput(i, "stdout")
    /\ GetResult(DerivedId(i)).stderr => SentOutput(i, "stderr")

\* C9: the envelopes of one execute_task are sent in the order of the plan,
\* for each command the result, then stdout, then stderr, and task_complete
\* after all of them; an envelope of command i is sent only when its derived
\* task is terminal; and the derived task of a later command is submitted
\* only when every envelope of the commands before it has been sent.
C9_PlanOrder ==
    /\ \A a, b \in 1..Len(plan_log) :
           a < b => Rank(plan_log[a]) < Rank(plan_log[b])
    /\ \A a \in 1..Len(plan_log) :
           PerCommand(plan_log[a])
               => Status(DerivedId(IndexOf(plan_log[a]))) \in TerminalStatuses
    /\ \A j \in 1..Len(plan) :
           Status(DerivedId(j)) # "none"
               => \A i \in 1..(j - 1) : plan[i] # "" => AllSent(i)

\* C9 witness: a plan of two commands is complete, the first with output on
\* both streams: six envelopes were sent.
C9_TwoCommandsComplete ==
    /\ plan_pc = "done"
    /\ plan = <<"warn", "echo">>
    /\ Len(plan_log) = 6

Completes == {a \in 1..Len(plan_log) : plan_log[a].type = "task_complete"}

\* The task_complete envelope of a finished plan.
Complete == plan_log[Len(plan_log)]

ExitedZero(i) == GetResult(DerivedId(i)).exit_code = Some(0)

RunIndexes == {i \in 1..Len(plan) : plan[i] # ""}

FailedIndexes == {i \in RunIndexes : ~ExitedZero(i)}

C11_EveryTaskEnvelopeReported ==
    /\ [](\A t \in TaskIds :
             /\ Len(reports[t]) <= received[t]
             /\ \A i \in 1..Len(reports[t]) : reports[t][i] \in TerminalStatuses)
    /\ \A t \in TaskIds :
           (Len(reports[t]) < received[t]) ~> (Len(reports[t]) = received[t])

\* ----------------------------------------------- claims about the scheduler

\* The step begins a firing of id: it calls the first callback.
FiringStarts(id) == invoked' = Some([task_id |-> id, cb |-> 1])

\* C12 (as claimed): a one-shot entry that is not cancelled is fired exactly
\* once while the scheduler runs: never a firing of an id that has no entry
\* waiting to be fired, every firing calls all the callbacks, and a one-shot
\* entry that was scheduled is fired in the end (unless it is cancelled,
\* scheduled anew as a recurring entry, or the scheduler is stopped).
C12_OneShotFiresOnce ==
    /\ [][\A id \in SchedIds : FiringStarts(id) => waiting[id] # "no"]_vars
    /\ (sched_pc = "callback") ~> (sched_pc # "callback" \/ ~sched_running)
    /\ \A id \in SchedIds :
           (waiting[id] = "oneshot") ~> (waiting[id] # "oneshot" \/ ~sched_running)

\* C13 (as claimed): no callback is called for an id after cancel returned
\* true for it (and before it is scheduled again), the remaining callbacks of
\* a firing in progress included.
C13_NoCallbackAfterCancel ==
    \A call \in invoked : ~cancelled[call.task_id]

\* C14 (as claimed): after reschedule returned true the next firing of the
\* id is the firing of the entry with the new run_at, and it does happen
\* (unless the id is cancelled or scheduled anew, or the scheduler stopped).
C14_NextFiringAtNewRunAt ==
    /\ [][\A id \in SchedIds :
             FiringStarts(id) /\ expected[id] # None
                 => \A task \in cur' : task.run_at \in expected[id]]_vars
    /\ \A id \in SchedIds :
           (expected[id] # None) ~> (expected[id] = None \/ ~sched_running)

\* The entry of id is in the map and its run_at has come.
Due(id) == InMap(id) /\ MapEntry(id).run_at <= now

IsRecurring(id) == InMap(id) /\ MapEntry(id).repeat_interval # 0

\* The step ends the firing of an entry: the last callback has returned.
FiringEnds(task) == sched_pc = "callback" /\ cur = Some(task) /\ sched_pc' = "popping"

\* C15 (as claimed): at the end of the firing of a recurring entry whose id
\* is in the map, the map gets an entry with run_at = now + repeat_interval;
\* at the end of the firing of a one-shot entry the id leaves the map; and
\* while the scheduler runs a recurring entry that is due is fired.
C15_RecurringKeepsFiring ==
    /\ [][\A task \in cur :
             FiringEnds(task) =>
                 IF task.repeat_interval # 0
                 THEN InMap(task.task_id) =>
                          sched_tasks'[task.task_id] =
                              Some(ScheduledTask(now + task.repeat_interval,
                                                 task.task_id, task.repeat_interval))
                 ELSE sched_tasks'[task.task_id] = None]_vars
    /\ \A id \in SchedIds :
           (Due(id) /\ IsRecurring(id))
               ~> (~(Due(id) /\ IsRecurring(id)) \/ ~sched_running)

\* C16 (as claimed): for every id in the map the heap holds an entry with
\* that id and the run_at of the map's entry.
C16_MapEntryInHeap ==
    \A id \in SchedIds : InMap(id) => sched_queue[HeapEntry(MapEntry(id))] > 0

\* ------------------------------------- more claims about the connection

\* C17 (as claimed): when a write of the send loop has failed, the state
\* becomes DISCONNECTED, the supervisor goes through RECONNECTING (unless stop
\* was called), and the send loop does not go on on that transport.
C17_SendErrorLeadsToReconnect ==
    /\ send_failed ~> (state = DISCONNECTED)
    /\ send_failed ~> (state = RECONNECTING \/ ~conn_running)
    /\ send_failed ~> (send_loop # "waiting")

\* C18 (as claimed): the outbound queue never holds more envelopes than its
\* capacity.
C18_QueueWithinCapacity == Len(send_queue) <= QueueCapacity

\* The send loops that run: the one of this connection and those that
\* earlier connections left behind.
NumSendLoops == orphans + (IF send_loop = "waiting" THEN 1 ELSE 0)

\* Every envelope written to the connection is the one whose send() call is
\* the oldest among the queued ones: the head of the queue.
WritesInSendOrder ==
    [][wire' # wire /\ wire' # <<>>
           => /\ send_queue # <<>>
              /\ wire' = Append(wire, Head(send_queue))
              /\ send_queue' = Tail(send_queue)]_vars

\* C19 (as claimed): envelopes are written in the order of their send()
\* calls, and at any time at most one send loop drains the queue, also after
\* reconnects.
C19_OneSendLoopInOrder ==
    /\ WritesInSendOrder
    /\ [](NumSendLoops <= 1)

\* -------------------------------------------------- claims about dispatch

\* C20 (as claimed): a dispatch calls the handlers registered for the kind
\* of the envelope, in the order of registration, then the wildcard handlers
\* in the order of registration, each once; and dispatching leaves the
\* registered lists as on() made them.
C20_DispatchCallsEachOnce ==
    /\ handlers = registered
    /\ \A c \in calls :
           c.handlers = registered[c.msg_type] \o registered[Wildcard]

\* The supervisor has given up: the maximum of attempts is set and reached,
\* and the supervisor task has ended.
GaveUp ==
    /\ reconnect_max_attempts > 0
    /\ reconnect_attempts >= reconnect_max_attempts
    /\ sup = "done"

\* C24 (as claimed): a supervisor that has given up after the maximum of
\* reconnect cycles has left the state DISCONNECTED and makes no connection
\* attempt until start is called; with reconnect_max_attempts = 0 the
\* supervisor ends only when stop was called.
C24_GiveUpLeavesDisconnected ==
    /\ [](GaveUp => state = DISCONNECTED)
    /\ [][GaveUp /\ state' = CONNECTING => Start]_vars
    /\ [](reconnect_max_attempts = 0 /\ sup = "done" => ~conn_running)

\* The step enters a reconnect cycle.
EntersCycle == state # RECONNECTING /\ state' = RECONNECTING

\* C25: the attempt counter is 0 whenever the state is CONNECTED; every
\* reconnect cycle that is entered adds exactly one to it; and it changes in
\* no other way than by such a cycle or by the reset of a successful connect.
\* So it is the number of cycles since the last CONNECTED, or since the
\* manager was made when there was none.
C25_AttemptsCountCycles ==
    /\ [](state = CONNECTED => reconnect_attempts = 0)
    /\ [][EntersCycle => reconnect_attempts' = reconnect_attempts + 1]_vars
    /\ [][reconnect_attempts' # reconnect_attempts =>
              \/ EntersCycle
              \/ state' = CONNECTED /\ reconnect_attempts' = 0]_vars

\* C25 witness: two cycles in a row after a connection was lost: the counter
\* was reset by the connection and stands at 2.
C25_TwoCyclesAfterConnection ==
    /\ state = RECONNECTING
    /\ connections > 0
    /\ reconnect_attempts = 2

\* ------------------------------------------- more claims about the executor

\* The _run_task coroutine of the id is alive: it waits at the gate or its
\* handler runs.
Executing(t) == co[t] \in {"waiting", "handler", "communicate"}

\* C28: an id whose execution is alive is in the in-flight set, and a submit
\* of an id that is in the in-flight set changes nothing: no result, no
\* status, and no coroutine is created.  So no second execution of an id
\* starts while one is alive.
C28_InFlightOnce ==
    /\ [](\A t \in TaskIds : Executing(t) => t \in InFlightIds)
    /\ [][\A t \in TaskIds, task \in ExecTasks :
              t \in InFlightIds /\ SubmitTask(t, task)
                  => UNCHANGED <<results, running_tasks, co, tasks, waiters, child,
                                 semaphore>>]_vars

\* C28 witness: the handler of an id waits for its child process while the
\* id is in flight and RUNNING: a submit of this id is refused here.
C28_RunningInFlight ==
    \E t \in TaskIds :
        /\ co[t] = "communicate"
        /\ t \in InFlightIds
        /\ Status(t) = RUNNING

\* ------------------------------------- claims about handlers and callbacks

\* The handlers _dispatch has to call for the frame: those of its kind, then
\* the wildcard handlers.
ToCall(frame) == Extended(HandlersFor(FromJson(frame).msg_type), handlers[Wildcard])

\* The receive loop is where it was: the connection is up and the loop
\* waits for the next frame.
StillReceiving ==
    /\ state' = CONNECTED
    /\ ws' = "open"
    /\ sup' = "gather"
    /\ recv' = "reading"

\* The end of the firing of task has done its recurrence or removal step.
RecurrenceStepDone(task) ==
    IF task.repeat_interval # 0
    THEN InMap(task.task_id) =>
             /\ sched_tasks'[task.task_id] =
                    Some(ScheduledTask(now + task.repeat_interval, task.task_id,
                                       task.repeat_interval))
             /\ sched_queue' # sched_queue
    ELSE sched_tasks'[task.task_id] = None

\* C21: whichever handlers raise, a dispatch calls every handler of the
\* envelope, the state stays CONNECTED and the receive loop waits for the
\* next frame; and when a callback of the scheduler raises, the next callback
\* of the firing is called, or after the last one the recurrence or removal
\* step is done and the loop task goes on.
C21_ExceptionsIsolated ==
    /\ [][\A frame \in Frames, bad \in SUBSET HandlerNames :
              ParseError(frame) = None /\ Receive(frame, bad)
                  => /\ calls' = Some([msg_type |-> FromJson(frame).msg_type,
                                       handlers |-> ToCall(frame)])
                     /\ StillReceiving]_vars
    /\ [][CallbackRaises =>
              \A task \in cur :
                  /\ sched_running' = sched_running
                  /\ IF cb < NumCallbacks
                     THEN /\ invoked' = Some([task_id |-> task.task_id, cb |-> cb + 1])
                          /\ sched_pc' = "callback"
                     ELSE /\ RecurrenceStepDone(task)
                          /\ sched_pc' = "popping"]_vars

\* C21 witness: the first of two wildcard handlers raised and the second was
\* called; and the first callback of the first firing raised and the second
\* callback was called.
C21_SecondCalledAfterFirstRaised ==
    /\ dispatches = 1
    /\ calls = Some([msg_type |-> "nokind", handlers |-> <<"h1", "h2">>])
    /\ state = CONNECTED
    /\ recv = "reading"
    /\ errors = <<Logged("_dispatch", "h1"), Logged("_process_queue", "callback")>>
    /\ now = 0
    /\ ops = 2
    /\ invoked = Some([task_id |-> 1, cb |-> 2])

\* ---------------------------------------------- claims about received frames

\* The frame is no JSON, or JSON that is no object.
Malformed(frame) == ParseError(frame) # None

\* The frame is an envelope for which no handler is registered: none for its
\* kind and no wildcard handler.
Unhandled(frame) == ParseError(frame) = None /\ ToCall(frame) = <<>>

\* C22: a frame that is malformed, or whose kind has no registered handler
\* (none for the kind and no wildcard handler, which is one for every kind),
\* is dropped: no handler is called, nothing is sent and no monitor started,
\* the state stays CONNECTED and the receive loop waits for the next frame.
C22_BadFrameDropped ==
    [][\A frame \in Frames, bad \in SUBSET HandlerNames :
          (Malformed(frame) \/ Unhandled(frame)) /\ Receive(frame, bad)
              => /\ \A c \in calls' : c.handlers = <<>>
                 /\ UNCHANGED <<send_queue, monitors, handlers>>
                 /\ StillReceiving]_vars

\* C22 witness: a frame that is no JSON object was logged and dropped, and
\* after it a ping was dispatched to the handler of the agent.
C22_PingAfterBadFrame ==
    /\ errors = <<Logged("_receive_loop", "AttributeError")>>
    /\ calls = Some([msg_type |-> "ping", handlers |-> <<"_handle_ping">>])
    /\ state = CONNECTED
    /\ recv = "reading"

\* The agent has registered its handlers.
AgentSetUp == HowMany(registered["ping"], "_handle_ping") = 1

\* C23: when the receive loop reads a ping, the agent (whose handlers are
\* registered by _setup_handlers) queues exactly one pong in the same step,
\* with the timestamp of the ping (the time of the agent when the ping has
\* none) and the agent_id, whatever other handlers do.
C23_PingAnsweredOnce ==
    [][\A frame \in Frames, bad \in SUBSET HandlerNames :
          AgentSetUp /\ frame.type = Some("ping") /\ Receive(frame, bad)
              => send_queue' =
                     Append(send_queue,
                            Envelope("pong", [timestamp |-> FieldOr(frame.timestamp, now),
                                              agent_id |-> AgentId]))]_vars

\* C23 witness: a ping with timestamp 2 was answered after the register
\* envelope, although a wildcard handler raised.
C23_PongWithTimestamp ==
    /\ send_queue = <<Register, Envelope("pong", [timestamp |-> 2, agent_id |-> AgentId])>>
    /\ errors = <<Logged("_dispatch", "h1")>>

\* ------------------------------------------------------- claims about stop

\* The step in which ConnectionManager.stop() returns.
StopReturns == (StopBegin /\ ws = NoWs) \/ StopFinish

\* The connection manager is stopped: not running, no call of stop() under
\* way, no supervisor task alive, no socket, and the state DISCONNECTED.
ConnStopped ==
    /\ ~conn_running
    /\ ~stopping
    /\ sup \in {"none", "done"}
    /\ ws = NoWs
    /\ recv = "none"
    /\ send_loop = "none"
    /\ state = DISCONNECTED

\* The scheduler is stopped: not running, and its loop task has ended.
SchedStopped == ~sched_running /\ sched_pc = "none" /\ cur = None

CommandString(task) ==
    IF task.task_type = "service"
    THEN IF task.service # "" /\ task.action \in ServiceActions
         THEN ServiceCommand(task.action, task.service)
         ELSE ""
    ELSE task.command

\* Some part of the command is an entry of the blocklist but for the case of
\* its letters.
HoldsEntryInAnyCase(command) ==
    \E k \in 1..Len(BlockedCommands) :
        \E i \in 1..(Len(command) - Len(BlockedCommands[k]) + 1) :
            Lower(SubSeq(command, i, i + Len(BlockedCommands[k]) - 1))
                = Lower(BlockedCommands[k])

\* The command strings of the tasks and plans explored that hold an entry.
CommandsWithEntry ==
    {c \in {CommandString(task) : task \in PolicyTasks}
              \cup UNION {{cmds[i] : i \in 1..Len(cmds)} : cmds \in PolicyPlans} :
        HoldsEntryInAnyCase(c)}

\* The task the coroutine of id t runs is one the policy refuses.
Refused(t) ==
    /\ tasks[t].task_type \in {"shell", "service"}
    /\ CommandString(tasks[t]) \in CommandsWithEntry

\* The task the coroutine of id t runs is a shell task without command.
Commandless(t) == tasks[t].task_type = "shell" /\ tasks[t].command = ""

\* In this step the task of id t ends.
Ends(t) == results[t].status \notin TerminalStatuses /\ results'[t].status \in TerminalStatuses

FailsWith(t, why) == results'[t].status = FAILED /\ results'[t].error = Some(why)

\* No child process runs for a task the policy refuses or for a shell task
\* without command.
NeverSpawned == \A t \in TaskIds : Refused(t) \/ Commandless(t) => child[t] = "none"

ClosedMidPlan == plan_pc = "polling" /\ ws # "open"

\* The kinds of the envelopes of a plan.
PlanEnvelopeTypes == {"command_result", "task_output", "task_complete"}

\* The envelopes of a plan that were written to a connection after the
\* first one.
PlanEnvelopesAfterReconnect ==
    IF connections > 1
    THEN {i \in 1..Len(wire) : wire[i].type \in PlanEnvelopeTypes}
    ELSE {}

\* C29: once the socket of an execute_task that is being executed is closed,
\* no further command of the plan is started, and after the reconnect no
\* command_result, task_output or task_complete envelope of the plan is
\* written to the new connection.
C29_ClosedPlanIsAborted ==
    /\ [][ClosedMidPlan => plan_idx' = plan_idx]_vars
    /\ [](PlanEnvelopesAfterReconnect = {})

\* C29, the part about the new connection alone.
C29_NoPlanEnvelopeAfterReconnect == PlanEnvelopesAfterReconnect = {}

\* ------------------------------------- claims about frames during a plan

\* A frame waits on the open socket while a plan is being executed.
FrameWaitsDuringPlan == plan_pc = "polling" /\ ws = "open" /\ inbox # <<>>

\* C30: while an execute_task plan is being executed the receive loop keeps
\* dispatching: a frame that waits on the open socket can be read and handed
\* to its handler (a cancel to executor.cancel, a ping to the handler that
\* answers it) without the plan having to finish first.
C30_ReceiveLoopNotStalled == FrameWaitsDuringPlan => ENABLED ReadFrame

\* ---------------------------------------------------- claims about timeouts

\* The timeout the task of id t is to have: the one it carries, or
\* config.task_timeout when it carries none.
TimeoutDue(t) ==
    IF tasks[t].timeout # None THEN CHOOSE n \in tasks[t].timeout : TRUE ELSE TaskTimeout

\* How long the handler of id t has run.
HandlerTime(t) == now - StartedAt(t)

\* C31: a task ends TIMEOUT exactly when its handler has run for the
\* effective timeout without finishing, the effective timeout being
\* task.timeout whenever the task carries one and config.task_timeout
\* otherwise: a task becomes TIMEOUT only from RUNNING and only when its
\* handler has run for that time (the time at the gate does not count, a
\* PENDING task never becomes TIMEOUT), and no handler runs for longer.
C31_TimeoutAfterEffectiveTimeout ==
    /\ [][\A t \in TaskIds :
              results'[t].status = TIMEOUT /\ results[t].status # TIMEOUT =>
                  /\ results[t].status = RUNNING
                  /\ HandlerTime(t) = TimeoutDue(t)]_vars
    /\ [](\A t \in TaskIds : InHandler(t) => HandlerTime(t) <= TimeoutDue(t))

\* ------------------------------------------ claims about reported exit codes

\* The envelopes the plan handler sends in this step.
SentInStep == SubSeq(plan_log', Len(plan_log) + 1, Len(plan_log'))

\* The result the handler found for the command of a command_result.
ResultReported(env) == results[DerivedId(IndexOf(env))]

\* C32: the exit_code of a command_result is 0 exactly when the derived task
\* of the command ended COMPLETED; for a task that ended FAILED, TIMEOUT or
\* CANCELLED the exit_code is not 0 and the task_complete with success false
\* that follows carries the same exit_code.
C32_ExitCodeTellsOutcome ==
    [][\A k \in 1..Len(SentInStep) :
          SentInStep[k].type = "command_result" =>
              LET r == ResultReported(SentInStep[k])
                  code == SentInStep[k].payload.exit_code
              IN  /\ (code = 0) <=> (r.status = COMPLETED)
                  /\ r.status \in {FAILED, TIMEOUT, CANCELLED} =>
                         \E j \in (k + 1)..Len(SentInStep) :
                             /\ SentInStep[j].type = "task_complete"
                             /\ SentInStep[j].payload.success = FALSE
                             /\ SentInStep[j].payload.exit_code = Some(code)]_vars

\* --------------------------------------------------- claims about heartbeats

\* The envelope that was put into the queue last.
LastSent == send_queue'[Len(send_queue')]

\* C33: a heartbeat is put into the queue only when the state is CONNECTED,
\* and its current_task_id is null when no task is RUNNING and otherwise the
\* id of a task that is RUNNING at that moment.
C33_HeartbeatNamesRunningTask ==
    [][Heartbeat =>
          /\ state = CONNECTED
          /\ IF \E t \in TaskIds : Status(t) = RUNNING
             THEN \E t \in TaskIds :
                      /\ Status(t) = RUNNING
                      /\ LastSent.payload.current_task_id = Some(t)
             ELSE LastSent.payload.current_task_id = None]_vars

\* --------------------------------------- claims about the filter of the loop

\* The heap entries the step takes from the heap.
Popped == {e \in HeapEntries : sched_queue'[e] < sched_queue[e]}

\* The heap entry e is due at the time the loop read, its id is in the map
\* and the entry of the map has its run_at.
PassedFilter(e) ==
    /\ e.run_at <= proc_now
    /\ sched_tasks[e.task_id] # None
    /\ \A task \in sched_tasks[e.task_id] : task.run_at = e.run_at

\* C34: a callback is called only for a popped heap entry that passed the
\* filter: the first callback in the step that pops an entry which is due
\* (never before its run_at), whose id is in the map and whose run_at is that
\* of the map's entry, with the map's entry; a later callback for the entry
\* of the firing in progress; and the step that pops an entry failing the
\* filter calls no callback and begins no firing.
C34_CallbacksOnlyAfterFilter ==
    [][/\ \A e \in Popped : ~PassedFilter(e) => invoked' = None /\ cur' = cur
       /\ \A call \in invoked' :
              IF call.cb = 1
              THEN \E e \in Popped :
                       /\ PassedFilter(e)
                       /\ e.task_id = call.task_id
                       /\ e.run_at <= now
                       /\ cur' = sched_tasks[e.task_id]
              ELSE /\ Popped = {}
                   /\ sched_pc = "callback"
                   /\ cb = call.cb - 1
                   /\ cur' = cur
                   /\ \A task \in cur : task.task_id = call.task_id]_vars

\* The first callback is called for an entry that is due, while the heap
\* still holds an older entry of the same id, left by a reschedule.
C34_FiredWithOldEntryInHeap ==
    \E call \in invoked, task \in cur :
        /\ call.cb = 1
        /\ call.task_id = task.task_id
        /\ task.run_at <= proc_now
        /\ \E e \in HeapEntries :
               sched_queue[e] > 0 /\ e.task_id = task.task_id /\ e.run_at # task.run_at

\* ------------------------------------- the scheduler feeding the executor

\* The kind and payload of the entry scheduled under an id: a shell command,
\* and a kind no handler is registered for.
ScheduledPayload(id) ==
    IF id = 1 THEN [task_type |-> "shell", command |-> "true"]
              ELSE [task_type |-> "nokind", command |-> ""]

\* PiAgent._on_scheduled_task, the first callback of the scheduler: a Task
\* with the id, kind and payload of the entry is submitted.  It waits for
\* nothing, its whole effect is in the step that calls it.
OnScheduledTask(scheduled) == Submit(scheduled.task_id, ScheduledPayload(scheduled.task_id))

\* _on_scheduled_task was called and the loop has not gone on yet: no other
\* coroutine runs in between.
InSubmitCallback == sched_pc = "callback" /\ cb = 1

\* A round of the loop of _process_queue in the agent.
PopSubmit ==
    /\ PopEntry
    /\ IF cur' # None /\ cb' = 1
       THEN \E scheduled \in cur' : OnScheduledTask(scheduled)
       ELSE UNCHANGED execVars
    /\ UNCHANGED <<connVars, planVars, monVars, dispVars, recvVars>>

\* The agent with entries scheduled by its owner: every firing submits a
\* task, and the executor runs the tasks.
NextFire ==
    \/ Tick
    \/ \E id \in SchedIds, delay \in Delays, repeat_interval \in Repeats :
           ~InSubmitCallback /\ Schedule(id, delay, repeat_interval)
    \/ ~InSubmitCallback /\ SchedStart
    \/ WakeUp
    \/ PopSubmit
    \/ CallbackReturns
    \/ \E t \in TaskIds : ~InSubmitCallback /\ AcquireGate(t)
    \/ \E t \in TaskIds : ~InSubmitCallback /\ HandlerStart(t)
    \/ \E t \in TaskIds : ~InSubmitCallback /\ ChildExit(t)

SpecFire == InitExecOnly /\ [][NextFire]_vars

\* ------------------------------------------ claims about scheduled firings

\* The step creates a _run_task coroutine for the task t.
ExecutionBegins(t, task) ==
    /\ running_tasks' = Append(running_tasks, t)
    /\ results'[t].status = PENDING
    /\ tasks'[t] = task
    /\ co'[t] = "waiting"

\* C35 (as claimed): every firing of a scheduled entry begins one execution
\* of a task of the entry's kind and payload, whatever became of the tasks
\* submitted by the earlier firings of the entry.
C35_EveryFiringExecutes ==
    [][\A id \in SchedIds :
          FiringStarts(id) => ExecutionBegins(id, ScheduledPayload(id))]_vars

\* ------------------------------------------ claims about the in-flight set

\* C36 (as claimed): the ids get_running_tasks returns are exactly the ids
\* whose status is PENDING or RUNNING; an id whose status is terminal is not
\* among them, whatever way its task ended, and can be submitted again.
C36_InFlightIffPendingOrRunning ==
    \A t \in TaskIds :
        (\E i \in 1..Len(GetRunningTasks) : GetRunningTasks[i] = t)
            <=> Status(t) \in {PENDING, RUNNING}

\* ------------------------------------------------ claims about the permits

\* The coroutine of t is past the gate and inside _run_task.
PastGate(t) == co[t] \in {"handler", "communicate"}

\* No _run_task coroutine is left: none waits for the gate, none is past it.
AllDone == \A t \in TaskIds : co[t] \notin {"waiting", "handler", "communicate"}

\* C37: the permits held are as many as the tasks past the gate and still
\* inside _run_task, and when no task is left every permit is free.
PermitsAccounted ==
    /\ semaphore >= 0
    /\ max_concurrent_tasks - semaphore = Cardinality({t \in TaskIds : PastGate(t)})
    /\ AllDone => semaphore = max_concurrent_tasks

\* C37: the permits are accounted for in every state, and every step in
\* which a task leaves _run_task (the handler returned or raised, the timeout
\* ran out, the task was cancelled) gives a permit back.
C37_PermitsNeverLeaked ==
    /\ []PermitsAccounted
    /\ [][\A t \in TaskIds :
             PastGate(t) /\ ~PastGate(t)' => semaphore' = semaphore + 1]_vars

\* Every permit is free after tasks ended in the different ways: one timed
\* out, one was cancelled while it ran or while it waited, one had a kind
\* without handler.
C37_AllFreeAfterEveryExit ==
    /\ AllDone
    /\ semaphore = max_concurrent_tasks
    /\ \E t \in TaskIds : Status(t) = TIMEOUT
    /\ \E t \in TaskIds : Status(t) = CANCELLED \/ co[t] = "cancelled"
    /\ \E t \in TaskIds : Status(t) = FAILED /\ results[t].error = Some("Unknown task type")

\* ------------------------------------ claims about calls during a firing

\* The entry the map holds for id is not the entry that is being fired: a
\* schedule or reschedule for the id has returned since the firing began.
ReplacedDuringFiring(id) == sched_tasks[id] # None /\ sched_tasks[id] # cur

\* C38 (as claimed): the entry that a schedule or reschedule put into the
\* map for an id while the callbacks of the id's firing were executing is
\* still the map's entry for the id, with its run_at, when the firing has
\* ended.
C38_CallDuringFiringKept ==
    [][\A task \in cur :
          FiringEnds(task) /\ ReplacedDuringFiring(task.task_id)
              => sched_tasks'[task.task_id] = sched_tasks[task.task_id]]_vars

\* ---------------------------------------- claims about the outbound queue

\* C39 (as claimed): every envelope that is taken from the outbound queue is
\* written to the transport in that step; an envelope that cannot be written
\* stays in the queue.
C39_TakenFromQueueIsWritten ==
    [][Len(send_queue') < Len(send_queue)
          => /\ ws = "open"
             /\ send_queue' = Tail(send_queue)
             /\ wire' = Append(wire, Head(send_queue))]_vars

\* ------------------------------------------ the executor with an allow-list

\* Shell tasks with a command that is the entry of the allow-list, a command
\* that has nothing of it, and a command of the blocklist.
AllowTasks == {[task_type |-> "shell", command |-> c] : c \in {"echo", "true", "rm -rf /"}}

\* The executor under either configuration of the allow-list.
NextAllow ==
    \/ \E t \in TaskIds, task \in AllowTasks : SubmitTask(t, task)
    \/ \E t \in TaskIds : AcquireGate(t)
    \/ \E t \in TaskIds : HandlerStart(t)
    \/ \E t \in TaskIds : ChildExit(t)

InitAllow == Init /\ max_concurrent_tasks = 1 /\ reconnect_max_attempts = 0

SpecAllow == InitAllow /\ [][NextAllow]_vars

\* ------------------------------------------- claims about the allow-list

\* The coroutine of id t runs a shell command of which no entry of the
\* allow-list, which is not empty, is a part.
NotAllowed(t) ==
    /\ tasks[t].task_type = "shell"
    /\ tasks[t].command # ""
    /\ allowed_commands # <<>>
    /\ \A k \in 1..Len(allowed_commands) : ~Contains(tasks[t].command, allowed_commands[k])

\* C40 (as claimed): with an empty allow-list no command is refused by the
\* policy unless the blocklist has it; with an allow-list that is not empty
\* a shell command that matches none of its entries ends FAILED and no child
\* process is spawned for it.
C40_AllowListEnforced ==
    /\ [](\A t \in TaskIds : NotAllowed(t) => child[t] = "none")
    /\ [][\A t \in TaskIds :
             /\ NotAllowed(t) /\ Ends(t) => results'[t].status = FAILED
             /\ allowed_commands = <<>> /\ tasks[t].task_type = "shell" /\ Ends(t)
                    /\ FailsWith(t, "Command blocked by security policy")
                    => HoldsEntryInAnyCase(tasks[t].command)]_vars

=============================================================================
